---- MODULE Spec2Model ----
(***************************************************************************)
(* A model of scollex (czcorpus/scollex): the two-pass import of a         *)
(* dependency-parsed vertical file into per-corpus SQL tables, and the     *)
(* HTTP read endpoints that rank collocation candidates from those tables. *)
(*                                                                         *)
(* Strings are sequences of symbols: a symbol is either a delimiter        *)
(* character (":" or "|") or a block of non-delimiter characters           *)
(* ("team").  "obj|iobj" is <<"obj", "|", "iobj">>, "" is <<>>, and string *)
(* concatenation is \o.  Two strings are equal exactly when their symbol   *)
(* sequences are, as no value of the model puts two blocks side by side.   *)
(***************************************************************************)
EXTENDS Integers, Sequences, FiniteSets, Bags, TLC

VARIABLES
    conf,          \* SyntaxProps of the corpus being imported
    Table,         \* VertProcessor.Table (CounterTable)
    ParentCounts,  \* VertProcessor.ParentCounts (FyTable)
    ChildCounts,   \* VertProcessor.ChildCounts (FyTable)
    stream,        \* the tokens the parser has handed to ProcToken so far
    db,            \* the committed contents of the corpus's three SQL tables
    tx,            \* the import's open transaction: its uncommitted inserts
    imp,           \* the import command: its position, arguments and error
    hist,          \* snapshots of db taken at points the claims refer to
    q,             \* the request being served by a read endpoint
    sh,            \* a sharded candidate fetch: its workers and the merged result
    co,            \* the CoVertProcessor of the second pass and the rows given to it
    sc,            \* one evaluation of the association score on both paths
    wr             \* a chunked writer: its loop over a table and its INSERTs

aggVars == <<Table, ParentCounts, ChildCounts, stream>>

impVars == <<db, tx, imp, hist>>

coVars == <<co, sc, wr>>

vars == <<conf, Table, ParentCounts, ChildCounts, stream, db, tx, imp, hist, q, sh, co, sc, wr>>

----------------------------------------------------------------------------
(* Bounds *)

\* longest token stream fed to the edge aggregator token by token
MaxTokens == 3

\* number of times the import command is run
MaxRuns == 2

\* number of requests the server handles
MaxRequests == 1

\* the longest list of fetched candidates that is ranked
MaxCands == 5

\* the largest table given to a chunked writer, and the largest chunk size
MaxItems == 7

MaxChunk == 3

\* the largest frequency of a scored triple (fxy, fx, fy)
MaxFreq == 4

\* number of token rows of a file given to both passes
MaxRows == 4

----------------------------------------------------------------------------
(* Program constants *)

bulkInsertChunkSize == 10000

\* ProcToken of both processors: if len(token.Attrs) < 12
MinTokenAttrs == 12

CandidatesFreqLimit == 15

\* the number of shards of the sharded candidate fetch
NumChunks == 8

StatusOK == 200

StatusUnprocessableEntity == 422

StatusBadRequest == 400

StatusInternalServerError == 500

----------------------------------------------------------------------------
(* Strings *)

W(s) == <<s>>

Colon == <<":">>

EmptyStr == <<>>

Nmod == W("nmod")
Nsubj == W("nsubj")
Obj == W("obj")
Iobj == W("iobj")
ObjIobj == <<"obj", "|", "iobj">>

\* strings.Split(value, "|"): the fields between the separators, in order;
\* a string without separator gives the one-element list of itself
RECURSIVE SplitRec(_, _)
SplitRec(s, cur) ==
    IF s = <<>> THEN <<cur>>
    ELSE IF Head(s) = "|" THEN <<cur>> \o SplitRec(Tail(s), <<>>)
    ELSE SplitRec(Tail(s), Append(cur, Head(s)))

Split(value) == SplitRec(value, <<>>)

expandDeprelMultivalue_NoSplit(value) == <<value>>

\* precalc.go: the split items followed by the whole expression
expandDeprelMultivalue(value) == Split(value) \o <<value>>

RECURSIVE expandDeprelMultivalues(_)
expandDeprelMultivalues(values) ==
    IF values = <<>> THEN <<>>
    ELSE expandDeprelMultivalue(Head(values)) \o expandDeprelMultivalues(Tail(values))

SliceContains(slice, v) == \E i \in DOMAIN slice : slice[i] = v

----------------------------------------------------------------------------
(* In-memory tables: Go maps from a string key to an item *)

EmptyTable == <<>>

\* FyTable.mkKey: "%s:%s:%s"
FyMkKey(lemma, upos, deprel) == lemma \o Colon \o upos \o Colon \o deprel

FyAdd(table, lemma, upos, deprel, val) ==
    LET key == FyMkKey(lemma, upos, deprel) IN
    IF key \in DOMAIN table
    THEN [table EXCEPT ![key].Freq = @ + val]
    ELSE table @@ (key :> [Lemma |-> lemma, Upos |-> upos, Deprel |-> deprel, Freq |-> val])

FyHas(table, lemma, upos, deprel) == FyMkKey(lemma, upos, deprel) \in DOMAIN table

\* CounterTable.mkKey: "%s:%s:%s:%s:%s" of lemma, upos, deprel, pLemma, pUpos
CtMkKey(lemma, upos, pLemma, pUpos, deprel) ==
    lemma \o Colon \o upos \o Colon \o deprel \o Colon \o pLemma \o Colon \o pUpos

CtAdd(table, lemma, upos, pLemma, pUpos, deprel, val) ==
    LET key == CtMkKey(lemma, upos, pLemma, pUpos, deprel) IN
    IF key \in DOMAIN table
    THEN [table EXCEPT ![key].Freq = @ + val]
    ELSE table @@ (key :> [Lemma |-> lemma, Upos |-> upos, PLemma |-> pLemma,
                           PUpos |-> pUpos, Deprel |-> deprel, Freq |-> val])

----------------------------------------------------------------------------
(* Configuration and input tokens *)

\* PosAttrProps: the column of the attribute in the vertical file
Col(name, n) == [Name |-> W(name), VerticalCol |-> n]

MkConf(nmodV, nsubjV, objV) ==
    [LemmaAttr |-> Col("lemma", 3), PosAttr |-> Col("upos", 4),
     FuncAttr |-> Col("deprel", 10),
     ParLemmaAttr |-> Col("p_lemma", 11), ParPosAttr |-> Col("p_upos", 12),
     NounValue |-> W("NOUN"), VerbValue |-> W("VERB"),
     NounModifiedValue |-> nmodV, NounSubjectValue |-> nsubjV, NounObjectValue |-> objV]

\* the configuration of intercorp_v13ud named in the comments of SyntaxProps
StdConf == MkConf(Nmod, Nsubj, ObjIobj)

Confs == {StdConf, MkConf(Nmod, Nsubj, Obj), MkConf(Nmod, Nsubj, Iobj),
          MkConf(Nsubj, Nsubj, Nsubj)}

Tok(lemma, upos, deprel, pLemma, pUpos) ==
    [lemma |-> lemma, upos |-> upos, deprel |-> deprel, p_lemma |-> pLemma, p_upos |-> pUpos]

TokTeamLeader == Tok(W("team"), W("NOUN"), Nmod, W("leader"), W("NOUN"))
TokTeamCaptain == Tok(W("team"), W("NOUN"), Nmod, W("captain"), W("NOUN"))
TokBallKick == Tok(W("ball"), W("NOUN"), ObjIobj, W("kick"), W("VERB"))
TokTheTeam == Tok(W("the"), W("DET"), W("det"), W("team"), W("NOUN"))
\* two rows whose fields contain the key delimiter ':': CounterTable.mkKey
\* gives both (lemma, upos, deprel, p_lemma, p_upos) tuples the one key
\* x:y:nmod:nsubj:z:w
TokColonA == Tok(W("x"), W("y"), Nmod, Nsubj, <<"z", ":", "w">>)
TokColonB == Tok(<<"x", ":", "y">>, Nmod, Nsubj, W("z"), W("w"))

Tokens == {TokTeamLeader, TokTeamCaptain, TokBallKick, TokTheTeam, TokColonA, TokColonB}

----------------------------------------------------------------------------
(* The SQL database: three tables per corpus, each a bag of rows *)

FcollsRow(lemma, upos, pLemma, pUpos, deprel, freq) ==
    [lemma |-> lemma, upos |-> upos, p_lemma |-> pLemma, p_upos |-> pUpos,
     deprel |-> deprel, freq |-> freq]

SumsRow(lemma, upos, deprel, freq) ==
    [lemma |-> lemma, upos |-> upos, deprel |-> deprel, freq |-> freq]

\* no table of the corpus exists; exists, hasParentSums and hasChildSums tell
\* which of <corpus>_fcolls, <corpus>_parent_sums and <corpus>_child_sums do,
\* hasScore whether the edge table has the column co_occurrence_score
NoDB ==
    [exists |-> FALSE, hasScore |-> FALSE, hasParentSums |-> FALSE, hasChildSums |-> FALSE,
     fcolls |-> EmptyBag, parent_sums |-> EmptyBag, child_sums |-> EmptyBag]

NoTx == [open |-> FALSE, fcolls |-> EmptyBag, parent_sums |-> EmptyBag, child_sums |-> EmptyBag]

\* no import run yet; stmt is the place of the run in InitializeDB's statements
ImpIdle == [pc |-> "idle", run |-> 0, force |-> FALSE, file |-> <<>>, stmt |-> 0,
     err |-> "none", coErr |-> FALSE]

\* a request: maxItems is the integer the URL argument gives (10 when it is
\* absent), badInt tells that the argument is there and is not an integer
Req(endpoint, w, pos, maxItems, corpusId) ==
    [endpoint |-> endpoint, w |-> w, pos |-> pos, maxItems |-> maxItems, corpusId |-> corpusId,
     badInt |-> FALSE]

NoReq == Req("none", EmptyStr, EmptyStr, 0, "")

\* no request in progress
QIdle ==
    [pc |-> "idle", served |-> 0, req |-> NoReq, fx |-> 0, rows |-> <<>>, cands |-> <<>>,
     status |-> 0, freqs |-> <<>>, ops |-> 0, failed |-> FALSE, during |-> FALSE,
     args |-> <<>>, cancelled |-> FALSE, tpl |-> <<>>]

\* no sharded fetch in progress
ShIdle ==
    [pc |-> "idle", calls |-> 0, args |-> <<>>, spawned |-> 0, fetching |-> 0,
     sending |-> EmptyBag, exiting |-> 0, done |-> 0,
     totalResult |-> <<>>, received |-> 0, closed |-> FALSE, closes |-> 0,
     failed |-> FALSE]

\* no second pass under way
CoIdle ==
    [pc |-> "idle", Span |-> 0, Window |-> <<>>, CoTable |-> <<>>, TokenCounts |-> <<>>,
     file |-> <<>>, pos |-> 0]

\* a float64: NaN, an infinity, a literal of updateCoOcc, or 14 + log2(num/den)
\* for a positive ratio num/den in lowest terms
Float(kind, num, den) == [kind |-> kind, num |-> num, den |-> den]

NoFloat == Float("none", 0, 0)

\* no writer at work
WrIdle ==
    [pc |-> "idle", table |-> "", chunk |-> 0, n |-> 0, items |-> <<>>, i |-> 0,
     args |-> <<>>, inserts |-> <<>>]

\* no score evaluated
ScIdle ==
    [fxy |-> 0, fx |-> 0, fy |-> 0, write |-> NoFloat, read |-> NoFloat,
     prevWrite |-> NoFloat, prevRead |-> NoFloat]

NoHist == [preCmd |-> NoDB, preRun |-> NoDB, after1 |-> NoDB, ok1 |-> FALSE, file1 |-> <<>>]

----------------------------------------------------------------------------
(* Edge aggregation pass *)

\* runForDeprel: the DeprelTypes given to the VertProcessor
DeprelTypes(c) ==
    expandDeprelMultivalues(<<c.NounModifiedValue, c.NounSubjectValue, c.NounObjectValue>>)

\* VertProcessor.ProcToken: the loop over the expanded deprel values
RECURSIVE ProcDeprels(_, _, _, _)
ProcDeprels(st, types, tok, deprels) ==
    IF deprels = <<>> THEN st
    ELSE LET deprel == Head(deprels)
             nxt == IF SliceContains(types, deprel)
                    THEN [Table |-> CtAdd(st.Table, tok.lemma, tok.upos, tok.p_lemma,
                                          tok.p_upos, deprel, 1),
                          ParentCounts |-> FyAdd(st.ParentCounts, tok.p_lemma, tok.p_upos,
                                                 deprel, 1),
                          ChildCounts |-> FyAdd(st.ChildCounts, tok.lemma, tok.upos,
                                                deprel, 1)]
                    ELSE st
         IN ProcDeprels(nxt, types, tok, Tail(deprels))

VertProcToken(st, types, tok) ==
    ProcDeprels(st, types, tok, expandDeprelMultivalue(tok.deprel))

EmptyVertState ==
    [Table |-> EmptyTable, ParentCounts |-> EmptyTable, ChildCounts |-> EmptyTable]

\* one token callback of the first pass
ProcToken(tok) ==
    /\ Len(stream) < MaxTokens
    /\ LET st == VertProcToken([Table |-> Table, ParentCounts |-> ParentCounts,
                                ChildCounts |-> ChildCounts], DeprelTypes(conf), tok)
       IN /\ Table' = st.Table
          /\ ParentCounts' = st.ParentCounts
          /\ ChildCounts' = st.ChildCounts
    /\ stream' = Append(stream, tok)
    /\ UNCHANGED <<coVars, sh, q, conf, impVars>>

AggInit ==
    /\ conf \in Confs
    /\ Table = EmptyTable
    /\ ParentCounts = EmptyTable
    /\ ChildCounts = EmptyTable
    /\ stream = <<>>
    /\ db = NoDB
    /\ tx = NoTx
    /\ imp = ImpIdle
    /\ hist = NoHist
    /\ q = QIdle
    /\ sh = ShIdle
    /\ co = CoIdle
    /\ sc = ScIdle
    /\ wr = WrIdle

AggNext == \E tok \in Tokens : ProcToken(tok)

\* the edge aggregator alone, fed any token stream under any configuration
SpecAgg == AggInit /\ [][AggNext]_vars

----------------------------------------------------------------------------
(* The two passes over token rows: VertProcessor, then CoVertProcessor *)

\* CoOccTable.mkKey: "%s:%s::%s:%s"
CoMkKey(lemma, upos, coLemma, coUpos) ==
    lemma \o Colon \o upos \o Colon \o Colon \o coLemma \o Colon \o coUpos

CoAdd(table, lemma, upos, coLemma, coUpos, val) ==
    LET key == CoMkKey(lemma, upos, coLemma, coUpos) IN
    IF key \in DOMAIN table
    THEN [table EXCEPT ![key].Freq = @ + val]
    ELSE table @@ (key :> [Lemma |-> lemma, Upos |-> upos, CoLemma |-> coLemma,
                           CoUpos |-> coUpos, Freq |-> val])

CoHas(table, lemma, upos, coLemma, coUpos) ==
    CoMkKey(lemma, upos, coLemma, coUpos) \in DOMAIN table

\* a token row: token.Attrs, the attributes after the word; Go's Attrs[k-1] is
\* attrs[k] here.  The row of length n that carries tok in the columns of c
Row(c, tok, n) ==
    [i \in 1..n |->
        CASE i = c.LemmaAttr.VerticalCol -> tok.lemma
          [] i = c.PosAttr.VerticalCol -> tok.upos
          [] i = c.FuncAttr.VerticalCol -> tok.deprel
          [] i = c.ParLemmaAttr.VerticalCol -> tok.p_lemma
          [] i = c.ParPosAttr.VerticalCol -> tok.p_upos
          [] OTHER -> W("_")]

\* a configuration whose parent lemma is in a column past the twelfth
WideConf == [StdConf EXCEPT !.ParLemmaAttr = Col("p_lemma", 13)]

CoConfs == {StdConf, WideConf}

TokLeaderRoot == Tok(W("leader"), W("NOUN"), W("root"), W("leader"), W("NOUN"))

\* the tokens of a file; the last two have a ':' in a parent lemma and in a
\* part of speech
CoToks ==
    {TokTeamLeader, TokLeaderRoot, TokTheTeam,
     Tok(W("x"), W("y"), Nmod, <<"z", ":", "w">>, W("v")),
     Tok(W("z"), <<"w", ":", "v">>, W("root"), W("z"), <<"w", ":", "v">>)}

\* the rows a file is made of: full rows, a row of twelve attributes and a
\* row of eleven
Rows(c) ==
    {Row(c, tok, MinTokenAttrs + 1) : tok \in CoToks}
        \cup {Row(c, TokTeamLeader, MinTokenAttrs), Row(c, TokTeamLeader, MinTokenAttrs - 1)}

\* the --colloc-flags-with-span argument
Spans == {1}

\* an index expression token.Attrs[k-1] that does not panic
InRange(attrs, k) == k - 1 >= 0 /\ k - 1 < Len(attrs)

\* the five attributes VertProcessor.ProcToken reads
VertCols(c) ==
    {c.FuncAttr.VerticalCol, c.LemmaAttr.VerticalCol, c.PosAttr.VerticalCol,
     c.ParPosAttr.VerticalCol, c.ParLemmaAttr.VerticalCol}

\* the two attributes CoVertProcessor.ProcToken reads
CoVertCols(c) == {c.LemmaAttr.VerticalCol, c.PosAttr.VerticalCol}

RowTok(c, attrs) ==
    Tok(attrs[c.LemmaAttr.VerticalCol], attrs[c.PosAttr.VerticalCol],
        attrs[c.FuncAttr.VerticalCol], attrs[c.ParLemmaAttr.VerticalCol],
        attrs[c.ParPosAttr.VerticalCol])

\* VertProcessor.ProcToken on one row of the file: a row of fewer than twelve
\* attributes is skipped, an index past the end of the row panics
Pass1ProcToken(attrs) ==
    /\ co.pc = "pass1"
    /\ Len(co.file) < MaxRows
    /\ IF Len(attrs) < MinTokenAttrs
       THEN /\ co' = [co EXCEPT !.file = Append(@, attrs)]
            /\ UNCHANGED <<Table, ParentCounts, ChildCounts>>
       ELSE IF \E k \in VertCols(conf) : ~InRange(attrs, k)
       THEN /\ co' = [co EXCEPT !.file = Append(@, attrs), !.pc = "panic"]
            /\ UNCHANGED <<Table, ParentCounts, ChildCounts>>
       ELSE LET st == VertProcToken([Table |-> Table, ParentCounts |-> ParentCounts,
                                     ChildCounts |-> ChildCounts],
                                    DeprelTypes(conf), RowTok(conf, attrs))
            IN /\ Table' = st.Table
               /\ ParentCounts' = st.ParentCounts
               /\ ChildCounts' = st.ChildCounts
               /\ co' = [co EXCEPT !.file = Append(@, attrs)]
    /\ UNCHANGED <<sc, wr, stream, sh, q, conf, impVars>>

\* the orders in which range may visit the items of a map
Orders(table) ==
    {ord \in [1..Cardinality(DOMAIN table) -> DOMAIN table] :
        \A i, j \in DOMAIN ord : i # j => ord[i] # ord[j]}

\* runForDeprel: for _, v := range table { coTable.Add; tokenCounts.Add x 2 }
RECURSIVE Seed(_, _, _, _)
Seed(table, ord, coTable, tokenCounts) ==
    IF ord = <<>> THEN [CoTable |-> coTable, TokenCounts |-> tokenCounts]
    ELSE LET v == table[Head(ord)] IN
         Seed(table, Tail(ord),
              CoAdd(coTable, v.Lemma, v.Upos, v.PLemma, v.PUpos, 0),
              FyAdd(FyAdd(tokenCounts, v.Lemma, v.Upos, EmptyStr, 0),
                    v.PLemma, v.PUpos, EmptyStr, 0))

\* the end of the first pass: both tables of the second pass are seeded from
\* the edge records and processCoOcc builds its CoVertProcessor
SeedCoOcc ==
    /\ co.pc = "pass1"
    /\ \E ord \in Orders(Table) :
         LET seeded == Seed(Table, ord, EmptyTable, EmptyTable) IN
         co' = [co EXCEPT !.pc = "pass2", !.Window = <<>>, !.pos = 0,
                          !.CoTable = seeded.CoTable,
                          !.TokenCounts = seeded.TokenCounts]
    /\ UNCHANGED <<sc, wr, aggVars, sh, q, conf, impVars>>

\* append to a window that is full drops its first item
Slide(window, span, item) ==
    IF Len(window) = 2 * span + 1 THEN Append(Tail(window), item) ELSE Append(window, item)

CountToken_NoHas(tokenCounts, lemma, upos) == FyAdd(tokenCounts, lemma, upos, EmptyStr, 1)

\* if cvp.TokenCounts.Has(lemma, upos, "") { cvp.TokenCounts.Add(lemma, upos, "", 1) }
CountToken(tokenCounts, lemma, upos) ==
    IF FyHas(tokenCounts, lemma, upos, EmptyStr)
    THEN FyAdd(tokenCounts, lemma, upos, EmptyStr, 1)
    ELSE tokenCounts

CountPair_NoHas(coTable, focus, v) == CoAdd(coTable, focus[1], focus[2], v[1], v[2], 1)

\* if cvp.CoTable.Has(focus, v) { cvp.CoTable.Add(focus, v, 1) }
CountPair(coTable, focus, v) ==
    IF CoHas(coTable, focus[1], focus[2], v[1], v[2])
    THEN CoAdd(coTable, focus[1], focus[2], v[1], v[2], 1)
    ELSE coTable

\* for i, v := range cvp.Window, from the item at index i on; the focus is at
\* Go's index span, which is span + 1 here
RECURSIVE CountWindow(_, _, _, _)
CountWindow(coTable, window, span, i) ==
    IF i > Len(window) THEN coTable
    ELSE CountWindow(IF i # span + 1
                     THEN CountPair(coTable, window[span + 1], window[i])
                     ELSE coTable,
                     window, span, i + 1)

\* CoVertProcessor.ProcToken on the next row of the same file
CoProcToken ==
    /\ co.pc = "pass2"
    /\ co.pos < Len(co.file)
    /\ LET attrs == co.file[co.pos + 1] IN
       IF Len(attrs) < MinTokenAttrs
       THEN co' = [co EXCEPT !.pos = @ + 1]
       ELSE IF \E k \in CoVertCols(conf) : ~InRange(attrs, k)
       THEN co' = [co EXCEPT !.pos = @ + 1, !.pc = "panic"]
       ELSE LET lemma == attrs[conf.LemmaAttr.VerticalCol]
                upos == attrs[conf.PosAttr.VerticalCol]
                window == Slide(co.Window, co.Span, <<lemma, upos>>)
            IN co' = [co EXCEPT !.pos = @ + 1,
                                !.Window = window,
                                !.TokenCounts = CountToken(@, lemma, upos),
                                !.CoTable = IF Len(window) = 2 * co.Span + 1
                                            THEN CountWindow(@, window, co.Span, 1)
                                            ELSE @]
    /\ UNCHANGED <<sc, wr, aggVars, sh, q, conf, impVars>>

\* the parser reaches the end of the file in the second pass
CoEnd ==
    /\ co.pc = "pass2"
    /\ co.pos = Len(co.file)
    /\ co' = [co EXCEPT !.pc = "done"]
    /\ UNCHANGED <<sc, wr, aggVars, sh, q, conf, impVars>>

CoStep ==
    \/ \E attrs \in Rows(conf) : Pass1ProcToken(attrs)
    \/ SeedCoOcc
    \/ CoProcToken
    \/ CoEnd

CoInit ==
    /\ conf \in CoConfs
    /\ Table = EmptyTable
    /\ ParentCounts = EmptyTable
    /\ ChildCounts = EmptyTable
    /\ stream = <<>>
    /\ db = NoDB
    /\ tx = NoTx
    /\ imp = ImpIdle
    /\ hist = NoHist
    /\ q = QIdle
    /\ sh = ShIdle
    /\ \E span \in Spans : co = [CoIdle EXCEPT !.pc = "pass1", !.Span = span]
    /\ sc = ScIdle
    /\ wr = WrIdle

\* both passes of one import over one file of token rows
SpecCo == CoInit /\ [][CoStep]_vars

----------------------------------------------------------------------------
(* The import command: scollex import [-f] conf corpus vertical-file *)

RECURSIVE Rep(_, _)
Rep(tok, n) == IF n = 0 THEN <<>> ELSE <<tok>> \o Rep(tok, n - 1)

TokDogRun == Tok(W("dog"), W("NOUN"), Nsubj, W("run"), W("VERB"))

\* scenario 1 of the specification: one pair three times, another once
FileScenario1 == Rep(TokTeamLeader, 3) \o <<TokTeamCaptain>>

\* a file whose pairs are frequent enough to pass CandidatesFreqLimit
FileFrequent ==
    Rep(TokTeamLeader, 12) \o Rep(TokTeamCaptain, 8) \o Rep(TokBallKick, 15)
        \o Rep(TokDogRun, 8) \o <<TokTheTeam>>

\* a vertical file without a token: its first pass leaves the tables empty
FileEmpty == <<>>

Files == {FileScenario1, FileFrequent, FileEmpty}

\* vertigo.ParseVerticalFile with a VertProcessor: ProcToken on every row, in
\* file order (the test on nxt has each row's tables computed before the next
\* row is read)
RECURSIVE ParseVertical(_, _, _)
ParseVertical(st, types, file) ==
    IF file = <<>> THEN st
    ELSE LET nxt == VertProcToken(st, types, Head(file)) IN
         IF DOMAIN nxt.Table = {} /\ DOMAIN st.Table # {} THEN st
         ELSE ParseVertical(nxt, types, Tail(file))

\* the rows writeFxy inserts: one per item of the CounterTable
FxyRows(table) ==
    SetToBag({FcollsRow(table[k].Lemma, table[k].Upos, table[k].PLemma, table[k].PUpos,
                        table[k].Deprel, table[k].Freq) : k \in DOMAIN table})

\* the rows writeParents and writeChildren insert: one per item of the FyTable
FyRows(table) ==
    SetToBag({SumsRow(table[k].Lemma, table[k].Upos, table[k].Deprel, table[k].Freq)
                : k \in DOMAIN table})

\* the number of INSERT statements a chunked writer issues for n items
NumInserts(n) == (n + bulkInsertChunkSize - 1) \div bulkInsertChunkSize

\* whether a table exists
HasTable(d, t) ==
    CASE t = "fcolls" -> d.exists
      [] t = "parent_sums" -> d.hasParentSums
      [] t = "child_sums" -> d.hasChildSums

\* the database with table t there (and empty) or not there
WithTable(d, t, there) ==
    CASE t = "fcolls" -> [d EXCEPT !.exists = there, !.hasScore = FALSE, !.fcolls = EmptyBag]
      [] t = "parent_sums" -> [d EXCEPT !.hasParentSums = there, !.parent_sums = EmptyBag]
      [] t = "child_sums" -> [d EXCEPT !.hasChildSums = there, !.child_sums = EmptyBag]

\* dropCollsTable, dropParentSumsTable, dropChildSumsTable: DROP TABLE IF EXISTS
dropTable(d, t) == [err |-> FALSE, db |-> WithTable(d, t, FALSE)]

createTable_IfNotExists(d, t) ==
    IF HasTable(d, t) THEN [err |-> FALSE, db |-> d]
    ELSE [err |-> FALSE, db |-> WithTable(d, t, TRUE)]

\* createCollsTable, createParentSumsTable, createChildSumsTable: CREATE TABLE
\* fails on a table that exists; the edge table is created without a
\* co_occurrence_score column
createTable(d, t) ==
    IF HasTable(d, t) THEN [err |-> TRUE, db |-> d]
    ELSE [err |-> FALSE, db |-> WithTable(d, t, TRUE)]

\* CollDatabase.InitializeDB: the statements it runs, in order
InitializeDB(force) ==
    <<<<"begin", "">>>>
      \o (IF force THEN <<<<"drop", "fcolls">>, <<"drop", "parent_sums">>, <<"drop", "child_sums">>>>
          ELSE <<>>)
      \o <<<<"create", "fcolls">>, <<"create", "parent_sums">>, <<"create", "child_sums">>,
           <<"commit", "">>>>

\* one statement of InitializeDB; a DDL statement commits implicitly, so what
\* it did stays whatever happens to the transaction
ExecStmt(d, stmt) ==
    CASE stmt[1] = "drop" -> dropTable(d, stmt[2])
      [] stmt[1] = "create" -> createTable(d, stmt[2])
      [] OTHER -> [err |-> FALSE, db |-> d]

\* the row TestTableReady leaves behind: id -1 and the column defaults
TestRow == FcollsRow(EmptyStr, EmptyStr, EmptyStr, EmptyStr, EmptyStr, 0)

\* the tables an operator prepared by hand for serving: those of an earlier
\* load of FileFrequent, the edge table with its co_occurrence_score column
OldDB ==
    LET st == ParseVertical(EmptyVertState, DeprelTypes(StdConf), FileFrequent) IN
    [exists |-> TRUE, hasScore |-> TRUE, hasParentSums |-> TRUE, hasChildSums |-> TRUE,
     fcolls |-> FxyRows(st.Table),
     parent_sums |-> FyRows(st.ParentCounts), child_sums |-> FyRows(st.ChildCounts)]

\* tables prepared the same way from a file in which the noun team also
\* modifies a verb and kick has a second, indirect object
MixedDB ==
    LET file == FileFrequent \o Rep(Tok(W("team"), W("NOUN"), Nmod, W("lead"), W("VERB")), 10)
                    \o Rep(Tok(W("dog"), W("NOUN"), Iobj, W("kick"), W("VERB")), 8)
        st == ParseVertical(EmptyVertState, DeprelTypes(StdConf), file)
    IN [exists |-> TRUE, hasScore |-> TRUE, hasParentSums |-> TRUE, hasChildSums |-> TRUE,
        fcolls |-> FxyRows(st.Table),
        parent_sums |-> FyRows(st.ParentCounts), child_sums |-> FyRows(st.ChildCounts)]

\* the configured corpora (CorporaConf)
Corpora == {"corp"}

GetCorpusProps(corpusID) == corpusID \in Corpora

ImpEnded == imp.pc \in {"idle", "done", "fatal"}

\* the run has ended by log.Fatal
Fatal(err) == [imp EXCEPT !.pc = "fatal", !.err = err]

\* main, case "import", up to NewCollDatabase: engine.Open and the lookup of
\* the corpus in the configuration, each ending the run by log.Fatal
ImportStart(force, file, corpusID, fail) ==
    /\ ImpEnded
    /\ imp.run < MaxRuns
    /\ imp' = [ImpIdle EXCEPT !.run = imp.run + 1, !.force = force, !.file = file,
                              !.pc = IF fail \/ ~GetCorpusProps(corpusID) THEN "fatal" ELSE "init",
                              !.stmt = 1,
                              !.err = IF fail THEN "open"
                                      ELSE IF ~GetCorpusProps(corpusID) THEN "corpus" ELSE "none"]
    /\ hist' = [hist EXCEPT !.preCmd = db]
    /\ UNCHANGED <<coVars, sh, q, conf, aggVars, db, tx>>

\* CollDatabase.InitializeDB, statement by statement; the error of a statement
\* (a table that exists, or a failure of the storage) ends the run by log.Fatal
ImportInitializeDB(fail) ==
    /\ imp.pc = "init"
    /\ LET stmts == InitializeDB(imp.force)
           r == ExecStmt(db, stmts[imp.stmt])
       IN IF fail
          THEN /\ db' = db
               /\ imp' = Fatal("init")
          ELSE /\ db' = r.db
               /\ imp' = IF r.err THEN Fatal("exists")
                         ELSE IF imp.stmt = Len(stmts) THEN [imp EXCEPT !.pc = "test"]
                         ELSE [imp EXCEPT !.stmt = @ + 1]
    /\ UNCHANGED <<coVars, sh, q, conf, aggVars, tx, hist>>

TestOutcomes == {"begin", "insert", "select", "ok"}

\* CollDatabase.TestTableReady: BeginTx, then the INSERT IGNORE and the SELECT
\* on the pool, outside the transaction, so the inserted row stays; each of the
\* three can fail, and the run then ends by log.Fatal
TestTableReady(outcome) ==
    /\ imp.pc = "test"
    /\ LET inserted == outcome \in {"select", "ok"} /\ db.exists IN
       /\ db' = IF inserted /\ ~BagIn(TestRow, db.fcolls)
                THEN [db EXCEPT !.fcolls = @ (+) SetToBag({TestRow})]
                ELSE db
       /\ imp' = IF outcome = "ok" /\ db.exists THEN [imp EXCEPT !.pc = "parse"]
                 ELSE Fatal("test")
    /\ UNCHANGED <<coVars, sh, q, conf, aggVars, tx, hist>>

\* runForDeprel: the first pass over the vertical file, or its error (a file
\* that cannot be read), which RunPg returns and main answers by log.Fatal
ParseVerticalFile(fail) ==
    /\ imp.pc = "parse"
    /\ IF fail
       THEN /\ imp' = Fatal("parse")
            /\ UNCHANGED <<Table, ParentCounts, ChildCounts>>
       ELSE LET st == ParseVertical(EmptyVertState, DeprelTypes(conf), imp.file) IN
            /\ Table' = st.Table
            /\ ParentCounts' = st.ParentCounts
            /\ ChildCounts' = st.ChildCounts
            /\ imp' = [imp EXCEPT !.pc = "delete"]
    /\ hist' = [hist EXCEPT !.preRun = db]
    /\ UNCHANGED <<coVars, sh, q, conf, stream, db, tx>>

DeleteOutcomes == {"begin", "delete", "ok"}

\* runForDeprel: db.BeginTx, then DELETE FROM <corpus>_fcolls executed on the
\* pool (db.ExecContext), not on the transaction: it commits at once. When
\* either fails the function returns the error without a rollback and the
\* run ends by log.Fatal, which closes the connection and its transaction
DeleteFcolls(outcome) ==
    /\ imp.pc = "delete"
    /\ IF outcome = "ok" /\ db.exists
       THEN /\ tx' = [NoTx EXCEPT !.open = TRUE]
            /\ db' = [db EXCEPT !.fcolls = EmptyBag]
            /\ imp' = [imp EXCEPT !.pc = "fxy"]
       ELSE /\ tx' = NoTx
            /\ db' = db
            /\ imp' = Fatal("delete")
    /\ UNCHANGED <<coVars, sh, q, conf, aggVars, hist>>

\* a chunked writer: all its INSERTs on the transaction, or tx.Rollback and
\* the error at the first INSERT that fails
ChunkedWrite(at, next, tbl, rows, n, fail) ==
    /\ imp.pc = at
    /\ fail => NumInserts(n) > 0
    /\ IF fail
       THEN /\ tx' = NoTx
            /\ imp' = Fatal("chunk")
       ELSE /\ tx' = [tx EXCEPT ![tbl] = @ (+) rows]
            /\ imp' = [imp EXCEPT !.pc = next]
    /\ UNCHANGED <<coVars, sh, q, conf, aggVars, db, hist>>

writeFxy(fail) ==
    ChunkedWrite("fxy", "children", "fcolls", FxyRows(Table), Cardinality(DOMAIN Table), fail)

writeChildren(fail) ==
    ChunkedWrite("children", "parents", "child_sums", FyRows(ChildCounts),
                 Cardinality(DOMAIN ChildCounts), fail)

writeParents(fail) ==
    ChunkedWrite("parents", "commit", "parent_sums", FyRows(ParentCounts),
                 Cardinality(DOMAIN ParentCounts), fail)

\* runForDeprel: tx.Commit makes the inserts of the three writers visible; when
\* it fails none of them is, the error is returned and the run ends
Commit(fail) ==
    /\ imp.pc = "commit"
    /\ IF fail
       THEN /\ db' = db
            /\ imp' = Fatal("commit")
       ELSE /\ db' = [db EXCEPT !.fcolls = @ (+) tx.fcolls,
                                !.parent_sums = @ (+) tx.parent_sums,
                                !.child_sums = @ (+) tx.child_sums]
            /\ imp' = [imp EXCEPT !.pc = "cooc"]
    /\ tx' = NoTx
    /\ UNCHANGED <<coVars, sh, q, conf, aggVars, hist>>

\* updateCoOcc sends one UPDATE of co_occurrence_score per seeded pair, and
\* the pairs are seeded from the edge records of the first pass: without a
\* record no UPDATE is sent; with one, the first UPDATE fails on an edge table
\* that has no such column
updateCoOccFails(d, table) ==
    table # EmptyTable /\ (~d.exists \/ ~d.hasScore)

\* runForDeprel: the pairs are seeded, the in-memory tables are dropped and
\* processCoOcc runs; it fails when its parse, its BeginTx or its Commit fails
\* or when an UPDATE of updateCoOcc fails (the transaction is then rolled
\* back); runForDeprel drops the error and returns nil
ProcessCoOcc(fail) ==
    /\ imp.pc = "cooc"
    /\ Table' = EmptyTable
    /\ ParentCounts' = EmptyTable
    /\ ChildCounts' = EmptyTable
    /\ imp' = [imp EXCEPT !.pc = "done", !.coErr = fail \/ updateCoOccFails(db, Table)]
    /\ hist' = IF imp.run = 1
               THEN [hist EXCEPT !.after1 = db, !.ok1 = TRUE, !.file1 = imp.file]
               ELSE hist
    /\ UNCHANGED <<coVars, sh, q, conf, stream, db, tx>>

\* the corpus named on the command line: a configured one or not
ImportCorpora == {"corp", "nocorp"}

ImportStep ==
    \/ \E force \in BOOLEAN, file \in Files, corpusID \in ImportCorpora, fail \in BOOLEAN :
          ImportStart(force, file, corpusID, fail)
    \/ \E fail \in BOOLEAN : ImportInitializeDB(fail)
    \/ \E outcome \in TestOutcomes : TestTableReady(outcome)
    \/ \E fail \in BOOLEAN : ParseVerticalFile(fail)
    \/ \E outcome \in DeleteOutcomes : DeleteFcolls(outcome)
    \/ \E fail \in BOOLEAN : writeFxy(fail)
    \/ \E fail \in BOOLEAN : writeChildren(fail)
    \/ \E fail \in BOOLEAN : writeParents(fail)
    \/ \E fail \in BOOLEAN : Commit(fail)
    \/ \E fail \in BOOLEAN : ProcessCoOcc(fail)

ImportInit ==
    /\ conf = StdConf
    /\ Table = EmptyTable
    /\ ParentCounts = EmptyTable
    /\ ChildCounts = EmptyTable
    /\ stream = <<>>
    /\ db \in {NoDB, OldDB}
    /\ tx = NoTx
    /\ imp = ImpIdle
    /\ hist = NoHist
    /\ q = QIdle
    /\ sh = ShIdle
    /\ co = CoIdle
    /\ sc = ScIdle
    /\ wr = WrIdle

\* the import command run up to MaxRuns times, one run after the other
SpecImport == ImportInit /\ [][ImportStep]_vars

----------------------------------------------------------------------------
(* The chunked writers: writeFxy, writeParents, writeChildren *)

\* the three writers are the same loop over different tables; the loop is
\* given its chunk size (bulkInsertChunkSize in the program) and the items of
\* the table are numbered in the order range visits them
WriterTables == {"fcolls", "parent_sums", "child_sums"}

\* tx.Exec of an INSERT with the gathered rows
Exec(inserts, args) == Append(inserts, args)

FinalFlush_Always(inserts, args) == Exec(inserts, args)

\* after the loop: if len(args) > 0 { tx.Exec(INSERT ...) }
FinalFlush(inserts, args) == IF Len(args) > 0 THEN Exec(inserts, args) ELSE inserts

\* one turn of for _, v := range table: the INSERT of a full chunk if
\* i == bulkInsertChunkSize, then the item is appended; the writer ends with
\* tx.Rollback and the error when the INSERT fails
WriteItem(fail) ==
    /\ wr.pc = "loop"
    /\ wr.items # <<>>
    /\ fail => wr.i = wr.chunk
    /\ wr' = IF fail THEN [wr EXCEPT !.pc = "failed"]
             ELSE IF wr.i = wr.chunk
             THEN [wr EXCEPT !.inserts = Exec(@, wr.args), !.args = <<Head(wr.items)>>,
                             !.i = 1, !.items = Tail(@)]
             ELSE [wr EXCEPT !.args = Append(@, Head(wr.items)), !.i = @ + 1,
                             !.items = Tail(@)]
    /\ UNCHANGED <<co, sc, sh, q, conf, aggVars, impVars>>

\* the end of the loop: the rows left over are inserted
WriteFinal(fail) ==
    /\ wr.pc = "loop"
    /\ wr.items = <<>>
    /\ fail => Len(wr.args) > 0
    /\ wr' = IF fail THEN [wr EXCEPT !.pc = "failed"]
             ELSE [wr EXCEPT !.pc = "done", !.inserts = FinalFlush(@, wr.args)]
    /\ UNCHANGED <<co, sc, sh, q, conf, aggVars, impVars>>

WriteStep ==
    \/ \E fail \in BOOLEAN : WriteItem(fail)
    \/ \E fail \in BOOLEAN : WriteFinal(fail)

WriteInit ==
    /\ conf = StdConf
    /\ Table = EmptyTable
    /\ ParentCounts = EmptyTable
    /\ ChildCounts = EmptyTable
    /\ stream = <<>>
    /\ db = NoDB
    /\ tx = NoTx
    /\ imp = ImpIdle
    /\ hist = NoHist
    /\ q = QIdle
    /\ sh = ShIdle
    /\ co = CoIdle
    /\ sc = ScIdle
    /\ \E t \in WriterTables, chunk \in 1..MaxChunk, n \in 0..MaxItems :
         wr = [WrIdle EXCEPT !.pc = "loop", !.table = t, !.chunk = chunk, !.n = n,
                             !.items = [k \in 1..n |-> k]]

\* a chunked writer over tables of every size up to MaxItems
SpecWrite == WriteInit /\ [][WriteStep]_vars

----------------------------------------------------------------------------
(* The candidate query engine (engine/query.go) *)

\* the rows of a table that are in the set S, with their multiplicities
Matching(bag, S) == [r \in S \cap BagToSet(bag) |-> CopiesIn(r, bag)]

\* the orders in which the storage may return the rows of a bag: the SELECTs
\* have no ORDER BY, so every order of the rows is possible
RECURSIVE RowOrders(_)
RowOrders(bag) ==
    IF BagToSet(bag) = {} THEN {<<>>}
    ELSE UNION {{<<r>> \o rest : rest \in RowOrders(bag (-) SetToBag({r}))} : r \in BagToSet(bag)}

\* SUM(freq) over the rows of a table that are in the set S
RECURSIVE SumFreqRows(_, _)
SumFreqRows(bag, S) ==
    IF S \cap BagToSet(bag) = {} THEN 0
    ELSE LET r == CHOOSE x \in S \cap BagToSet(bag) : TRUE
         IN r.freq * CopiesIn(r, bag) + SumFreqRows(bag, S \ {r})

\* "deprel = ? OR deprel = ? ..." over strings.Split(deprel, "|")
DeprelMatches(rowDeprel, deprel) == SliceContains(Split(deprel), rowDeprel)

\* the WHERE clause of GetFreq: every non-empty argument is a condition
GetFreqWhere(r, a) ==
    /\ a.deprel # EmptyStr => DeprelMatches(r.deprel, a.deprel)
    /\ a.lemma # EmptyStr => r.lemma = a.lemma
    /\ a.upos # EmptyStr => r.upos = a.upos
    /\ a.pLemma # EmptyStr => r.p_lemma = a.pLemma
    /\ a.pUpos # EmptyStr => r.p_upos = a.pUpos

\* CollDatabase.GetFreq: SELECT COALESCE(SUM(freq), 0) FROM <corpus>_fcolls
GetFreq(d, a) == SumFreqRows(d.fcolls, {r \in BagToSet(d.fcolls) : GetFreqWhere(r, a)})

\* the WHERE clause of GetCollCandidatesOfChild
ChildWhere(r, a) ==
    /\ r.lemma = a.lemma
    /\ r.freq >= a.minFreq
    /\ a.deprel # EmptyStr => DeprelMatches(r.deprel, a.deprel)
    /\ a.upos # EmptyStr => r.upos = a.upos

\* the WHERE clause of GetCollCandidatesOfParent
ParentWhere(r, a) ==
    /\ r.p_lemma = a.lemma
    /\ r.freq >= a.minFreq
    /\ a.deprel # EmptyStr => DeprelMatches(r.deprel, a.deprel)
    /\ a.upos # EmptyStr => r.p_upos = a.upos

\* the first SELECT of the two candidate functions: the matching edge rows,
\* in each of the orders the storage may return them
CandidateRows(d, kind, a) ==
    RowOrders(Matching(d.fcolls, {r \in BagToSet(d.fcolls) :
                                    IF kind = "child" THEN ChildWhere(r, a) ELSE ParentWhere(r, a)}))

\* GetCollCandidatesOfChild, sql2: "p_lemma = ? AND p_upos = ? AND (d1 OR d2)"
ParentSumWhere(r, a) ==
    /\ r.lemma = a.lemma
    /\ r.upos = a.upos
    /\ a.deprel # EmptyStr => DeprelMatches(r.deprel, a.deprel)

\* GetCollCandidatesOfParent, sql2: "lemma = ? AND upos = ? AND d1 OR d2", the
\* deprel conditions not parenthesised
ChildSumWhere(r, a) ==
    LET ds == Split(a.deprel) IN
    IF a.deprel = EmptyStr THEN r.lemma = a.lemma /\ r.upos = a.upos
    ELSE \/ (r.lemma = a.lemma /\ r.upos = a.upos /\ r.deprel = ds[1])
         \/ \E i \in 2..Len(ds) : r.deprel = ds[i]

\* the candidate built from one edge row: its partner, the joint frequency and
\* the partner's marginal from the opposite sum table
MkCandidate(d, kind, row, deprel) ==
    LET lemma == IF kind = "child" THEN row.p_lemma ELSE row.lemma
        upos == IF kind = "child" THEN row.p_upos ELSE row.upos
        a == [lemma |-> lemma, upos |-> upos, deprel |-> deprel]
        fy == IF kind = "child"
              THEN SumFreqRows(d.parent_sums, {r \in BagToSet(d.parent_sums) : ParentSumWhere(r, a)})
              ELSE SumFreqRows(d.child_sums, {r \in BagToSet(d.child_sums) : ChildSumWhere(r, a)})
    IN [Lemma |-> lemma, Upos |-> upos, FreqXY |-> row.freq, FreqY |-> fy]

----------------------------------------------------------------------------
(* The read endpoints (actions.go) *)

Endpoints == {"NounsModifiedBy", "ModifiersOf", "VerbsSubject", "VerbsObject"}

IsValid_Always(w) == TRUE

\* Word.IsValid
IsValid(w) == w # EmptyStr

\* the arguments each handler gives to GetFreq
FreqArgs(r) ==
    CASE r.endpoint = "NounsModifiedBy" ->
            [lemma |-> r.w, upos |-> r.pos, pLemma |-> EmptyStr, pUpos |-> W("NOUN"), deprel |-> Nmod]
      [] r.endpoint = "ModifiersOf" ->
            [lemma |-> EmptyStr, upos |-> W("NOUN"), pLemma |-> r.w, pUpos |-> r.pos, deprel |-> Nmod]
      [] r.endpoint = "VerbsSubject" ->
            [lemma |-> r.w, upos |-> r.pos, pLemma |-> EmptyStr, pUpos |-> W("VERB"), deprel |-> Nsubj]
      [] OTHER ->
            [lemma |-> r.w, upos |-> r.pos, pLemma |-> EmptyStr, pUpos |-> W("VERB"), deprel |-> ObjIobj]

CandKind_AlwaysChild(r) == "child"

\* the candidate function each handler calls: ModifiersOf asks for the
\* candidates of a parent, the other three for those of a child
CandKind(r) == IF r.endpoint = "ModifiersOf" THEN "parent" ELSE "child"

CandArgs(r) ==
    [lemma |-> r.w, upos |-> r.pos, deprel |-> FreqArgs(r).deprel, minFreq |-> CandidatesFreqLimit]

\* 14 + log2(2*fxy / (fx + fy)), kept as the exact ratio under the logarithm
CollWeight(fxy, fx, fy) == [num |-> 2 * fxy, den |-> fx + fy]

\* the float64 the ratio gives: log2 of 0 is -Inf, of x/0 is +Inf, of 0/0 NaN
FloatKind(wt) ==
    IF wt.den = 0 THEN (IF wt.num = 0 THEN "nan" ELSE IF wt.num > 0 THEN "+inf" ELSE "-inf")
    ELSE IF wt.num = 0 THEN "-inf"
    ELSE IF (wt.num > 0) = (wt.den > 0) THEN "finite" ELSE "nan"

\* a < b on float64; log2 is increasing, so finite weights compare as their ratios
FloatLess(a, b) ==
    LET ka == FloatKind(a)
        kb == FloatKind(b)
    IN CASE ka = "nan" \/ kb = "nan" -> FALSE
         [] ka = "-inf" -> kb # "-inf"
         [] ka = "+inf" -> FALSE
         [] OTHER -> \/ kb = "+inf"
                     \/ kb = "finite" /\ a.num * b.den < b.num * a.den

\* the handlers' loop over the candidates; pos remembers the place of the
\* candidate in the fetched list
RECURSIVE MkItems(_, _, _)
MkItems(cands, fx, i) ==
    IF i > Len(cands) THEN <<>>
    ELSE <<[Word |-> cands[i].Lemma, Freq |-> cands[i].FreqXY,
            CollWeight |-> CollWeight(cands[i].FreqXY, fx, cands[i].FreqY), pos |-> i]>>
             \o MkItems(cands, fx, i + 1)

less_Ascending(x, y) == FloatLess(x.CollWeight, y.CollWeight)

\* the less function given to sort.SliceStable: result[j] < result[i]
less(x, y) == FloatLess(y.CollWeight, x.CollWeight)

\* insertion of x at the end of a sorted list, moved left while less(x, left)
RECURSIVE InsertStable(_, _)
InsertStable(sorted, x) ==
    IF sorted = <<>> \/ ~less(x, sorted[Len(sorted)]) THEN Append(sorted, x)
    ELSE Append(InsertStable(SubSeq(sorted, 1, Len(sorted) - 1), x), sorted[Len(sorted)])

\* sort.SliceStable (an insertion sort for lists of this size)
RECURSIVE SliceStable(_)
SliceStable(list) ==
    IF list = <<>> THEN <<>>
    ELSE InsertStable(SliceStable(SubSeq(list, 1, Len(list) - 1)), list[Len(list)])

\* FreqDistribItemList.Cut: flist[:maxItems], which panics for maxItems < 0
Cut(flist, maxItems) ==
    IF Len(flist) > maxItems
    THEN [panic |-> maxItems < 0, list |-> SubSeq(flist, 1, maxItems)]
    ELSE [panic |-> FALSE, list |-> flist]

\* one clause of a query: fmt.Sprintf of %s="%s"
Clause(attr, value) == attr \o <<"=", "\"">> \o value \o <<"\"">>

\* the format string: the clauses between brackets, " & " between two clauses
RECURSIVE Sprintf(_)
Sprintf(clauses) ==
    IF Len(clauses) = 1 THEN <<"[">> \o clauses[1] \o <<"]">>
    ELSE LET rest == Sprintf(Tail(clauses)) IN
         <<"[">> \o clauses[1] \o <<" & ">> \o Tail(rest)

\* the clause on the word's part of speech, absent when word.PoS == ""
PosClause(attr, pos) == IF pos = EmptyStr THEN <<>> ELSE <<Clause(attr.Name, pos)>>

\* cql.NounsModifiedBy
cqlNounsModifiedBy(c, w, pos, collCandidate) ==
    Sprintf(<<Clause(c.LemmaAttr.Name, w)>> \o PosClause(c.PosAttr, pos)
              \o <<Clause(c.ParLemmaAttr.Name, collCandidate),
                   Clause(c.FuncAttr.Name, c.NounModifiedValue),
                   Clause(c.ParPosAttr.Name, c.NounValue)>>)

\* cql.ModifiersOf
cqlModifiersOf(c, w, pos, collCandidate) ==
    Sprintf(<<Clause(c.ParLemmaAttr.Name, w)>> \o PosClause(c.ParPosAttr, pos)
              \o <<Clause(c.FuncAttr.Name, c.NounModifiedValue),
                   Clause(c.PosAttr.Name, c.NounValue),
                   Clause(c.LemmaAttr.Name, collCandidate)>>)

\* cql.VerbsObject and cql.VerbsSubject, which differ in the relation value
cqlVerbs(c, w, pos, deprel, collCandidate) ==
    Sprintf(<<Clause(c.LemmaAttr.Name, w)>> \o PosClause(c.PosAttr, pos)
              \o <<Clause(c.FuncAttr.Name, deprel),
                   Clause(c.ParPosAttr.Name, c.VerbValue),
                   Clause(c.ParLemmaAttr.Name, collCandidate)>>)

\* ExamplesQueryTpl of the response: the generator of the endpoint with "%s"
\* as the candidate
ExamplesQueryTpl(c, r) ==
    CASE r.endpoint = "NounsModifiedBy" -> cqlNounsModifiedBy(c, r.w, r.pos, <<"%s">>)
      [] r.endpoint = "ModifiersOf" -> cqlModifiersOf(c, r.w, r.pos, <<"%s">>)
      [] r.endpoint = "VerbsObject" -> cqlVerbs(c, r.w, r.pos, c.NounObjectValue, <<"%s">>)
      [] r.endpoint = "VerbsSubject" -> cqlVerbs(c, r.w, r.pos, c.NounSubjectValue, <<"%s">>)

Requests ==
    {Req(e, EmptyStr, W("NOUN"), 10, "corp") : e \in Endpoints}
      \cup {Req("NounsModifiedBy", W("team"), W("NOUN"), 10, "corp"),
            Req("NounsModifiedBy", W("team"), EmptyStr, 1, "corp"),
            Req("ModifiersOf", W("leader"), W("NOUN"), 10, "corp"),
            Req("VerbsSubject", W("dog"), EmptyStr, 0, "corp"),
            Req("VerbsObject", W("ball"), W("NOUN"), 10, "corp"),
            Req("NounsModifiedBy", W("team"), W("NOUN"), 10, "nocorp"),
            Req("ModifiersOf", <<"te", "\"", "am">>, W("NOUN"), 10, "corp"),
            Req("VerbsObject", <<"%s">>, EmptyStr, 10, "corp"),
            [Req("NounsModifiedBy", W("team"), W("NOUN"), 0, "corp") EXCEPT !.badInt = TRUE],
            [Req("NounsModifiedBy", W("team"), EmptyStr, 0, "nocorp") EXCEPT !.badInt = TRUE]}

Importing == ~ImpEnded

\* NewCollDatabase: ctx is context.Background(), which is never done, whether
\* or not the request was cancelled or its deadline has passed
CtxDone(cancelled) == FALSE

\* the handler answers and ends
Answer(status, freqs) == [q EXCEPT !.pc = "done", !.status = status, !.freqs = freqs]

\* unireq.GetURLIntArgOrFail answers a maxItems that is not an integer itself;
\* its body is not part of the sources, the status it sends is one of these
BadArgStatuses == {StatusBadRequest, StatusUnprocessableEntity}

\* a handler up to NewCollDatabase: the checks of w, of maxItems and of the
\* corpus, in this order
Receive(r) ==
    /\ q.pc \in {"idle", "done"}
    /\ q.served < MaxRequests
    /\ LET q0 == [QIdle EXCEPT !.served = q.served + 1, !.req = r] IN
       \E st \in BadArgStatuses :
         q' = IF ~IsValid(r.w)
              THEN [q0 EXCEPT !.pc = "done", !.status = StatusUnprocessableEntity]
              ELSE IF r.badInt
              THEN [q0 EXCEPT !.pc = "done", !.status = st]
              ELSE IF ~GetCorpusProps(r.corpusId)
              THEN [q0 EXCEPT !.pc = "done", !.status = StatusInternalServerError]
              ELSE [q0 EXCEPT !.pc = "getfreq"]
    /\ UNCHANGED <<coVars, sh, conf, aggVars, impVars>>

\* cdb.GetFreq and the handler's check of its error
HandlerGetFreq(fail) ==
    /\ q.pc = "getfreq"
    /\ q' = IF fail \/ ~db.exists \/ CtxDone(q.cancelled)
            THEN [Answer(StatusInternalServerError, <<>>) EXCEPT !.ops = @ + 1]
            ELSE [q EXCEPT !.pc = "query", !.ops = @ + 1, !.fx = GetFreq(db, FreqArgs(q.req)),
                           !.during = Importing]
    /\ UNCHANGED <<coVars, sh, conf, aggVars, impVars>>

RowOutcomes == {"ok", "scan", "sum", "iter"}

\* whether the sum table that sql2 of a candidate function reads is there
SumsThere(d, kind) == IF kind = "child" THEN d.hasParentSums ELSE d.hasChildSums

\* the QueryContext of the candidate function: it selects co_occurrence_score;
\* the rows come in one of the orders the storage may give them
HandlerQuery(fail) ==
    /\ q.pc = "query"
    /\ \E rows \in CandidateRows(db, CandKind(q.req), CandArgs(q.req)) :
         q' = IF fail \/ ~db.exists \/ ~db.hasScore \/ CtxDone(q.cancelled)
              THEN [Answer(StatusInternalServerError, <<>>) EXCEPT !.ops = @ + 1, !.failed = TRUE]
              ELSE [q EXCEPT !.pc = "rows", !.ops = @ + 1, !.rows = rows]
    /\ UNCHANGED <<coVars, sh, conf, aggVars, impVars>>

\* one turn of the loop over rows.Next(): the row is scanned and the partner's
\* marginal is read ("ok"), or Scan fails ("scan"), or the marginal's query
\* fails ("sum"), or Next ends the loop on an error that is only logged ("iter")
HandlerNextRow(outcome) ==
    /\ q.pc = "rows"
    /\ q.rows # <<>>
    /\ q' = CASE outcome = "ok" /\ SumsThere(db, CandKind(q.req)) /\ ~CtxDone(q.cancelled) ->
                    [q EXCEPT !.rows = Tail(@), !.ops = @ + 1,
                              !.cands = Append(@, MkCandidate(db, CandKind(q.req), Head(q.rows),
                                                              CandArgs(q.req).deprel))]
              [] outcome = "iter" -> [q EXCEPT !.rows = <<>>, !.failed = TRUE]
              [] outcome = "scan" -> [Answer(StatusInternalServerError, <<>>) EXCEPT !.failed = TRUE]
              [] OTHER -> [Answer(StatusInternalServerError, <<>>)
                              EXCEPT !.failed = TRUE, !.ops = @ + 1]
    /\ UNCHANGED <<coVars, sh, conf, aggVars, impVars>>

\* the rest of the handler: the items, their sort, Cut and the JSON response
\* (a panic of Cut is answered by gin's Recovery)
HandlerRespond ==
    /\ q.pc = "rows"
    /\ q.rows = <<>>
    /\ LET cut == Cut(SliceStable(MkItems(q.cands, q.fx, 1)), q.req.maxItems) IN
       q' = IF cut.panic THEN Answer(StatusInternalServerError, <<>>)
            ELSE [Answer(StatusOK, cut.list) EXCEPT !.tpl = ExamplesQueryTpl(conf, q.req)]
    /\ UNCHANGED <<coVars, sh, conf, aggVars, impVars>>

\* the client goes away or the deadline of the request passes while the
\* handler is at work: the request's context is cancelled
RequestCancelled ==
    /\ q.pc \in {"getfreq", "query", "rows"}
    /\ ~q.cancelled
    /\ q' = [q EXCEPT !.cancelled = TRUE]
    /\ UNCHANGED <<coVars, sh, conf, aggVars, impVars>>

ServeStep ==
    \/ \E r \in Requests : Receive(r)
    \/ \E fail \in BOOLEAN : HandlerGetFreq(fail)
    \/ \E fail \in BOOLEAN : HandlerQuery(fail)
    \/ \E outcome \in RowOutcomes : HandlerNextRow(outcome)
    \/ HandlerRespond
    \/ RequestCancelled

\* the tables of a finished import of a file into a fresh database
ImportedDB(file) ==
    LET st == ParseVertical(EmptyVertState, DeprelTypes(StdConf), file) IN
    [exists |-> TRUE, hasScore |-> FALSE, hasParentSums |-> TRUE, hasChildSums |-> TRUE,
     fcolls |-> FxyRows(st.Table),
     parent_sums |-> FyRows(st.ParentCounts), child_sums |-> FyRows(st.ChildCounts)]

\* the tables a server can find: none, tables with scores, tables of an import
ServeDBs == {NoDB, OldDB, MixedDB} \cup {ImportedDB(f) : f \in Files}

ServeInit ==
    /\ conf = StdConf
    /\ Table = EmptyTable
    /\ ParentCounts = EmptyTable
    /\ ChildCounts = EmptyTable
    /\ stream = <<>>
    /\ db \in ServeDBs
    /\ tx = NoTx
    /\ imp = ImpIdle
    /\ hist = NoHist
    /\ q = QIdle
    /\ sh = ShIdle
    /\ co = CoIdle
    /\ sc = ScIdle
    /\ wr = WrIdle

\* the server alone, over tables no import is changing
SpecServe == ServeInit /\ [][ServeStep]_vars

Next == ImportStep \/ ServeStep

\* the import command and the server running side by side
Spec == ImportInit /\ [][Next]_vars

----------------------------------------------------------------------------
(* Round trip: the import's tables read back by the candidate fetch *)

\* the words and relation classes the round trip asks for
RoundTripQueries ==
    {[lemma |-> W("team"), upos |-> W("NOUN"), deprel |-> Nmod, minFreq |-> 0],
     [lemma |-> W("team"), upos |-> EmptyStr, deprel |-> Nmod, minFreq |-> 0],
     [lemma |-> W("ball"), upos |-> W("NOUN"), deprel |-> ObjIobj, minFreq |-> 0],
     [lemma |-> W("dog"), upos |-> EmptyStr, deprel |-> Nsubj, minFreq |-> 0]}

\* sql1 of a candidate function called outside a handler: an error and no
\* candidate when the SELECT fails (failed tells that the function returned
\* an error), else the rows in one of their orders; without rows the function
\* returns at once. args keeps the call, the import run it follows and
\* whether the storage failed during the call
FetchQuery(a, kind, fail, rows) ==
    LET args == [call |-> a, kind |-> kind, file |-> imp.file, run |-> imp.run, fault |-> fail] IN
    IF fail \/ ~db.exists \/ ~db.hasScore
    THEN [q EXCEPT !.pc = "fetched", !.ops = 1, !.failed = TRUE, !.args = args]
    ELSE [q EXCEPT !.pc = IF rows = <<>> THEN "fetched" ELSE "fetching", !.ops = 1, !.rows = rows,
                   !.args = args]

\* GetCollCandidatesOfChild called with minFreq = 0 before the first run of
\* the import command or after a finished one
RoundTripFetch(a, fail) ==
    /\ imp.pc \in {"idle", "done"}
    /\ q.pc = "idle"
    /\ \E rows \in CandidateRows(db, "child", a) : q' = FetchQuery(a, "child", fail, rows)
    /\ UNCHANGED <<coVars, sh, conf, aggVars, impVars>>

\* one turn of the loop over rows.Next() in a candidate function: Scan and
\* sql2 give the candidate ("ok"); a Scan error returns the candidates so far
\* and the error ("scan"); an error of sql2 returns no candidate and the error
\* ("sum"); an error that ends the iteration is logged and the candidates so
\* far are returned without an error ("iter"). After the last row the function
\* returns its candidates
FetchNextRow(outcome) ==
    /\ q.pc = "fetching"
    /\ q' = CASE outcome = "ok" /\ SumsThere(db, q.args.kind) ->
                    [q EXCEPT !.rows = Tail(@), !.ops = @ + 1,
                              !.pc = IF Tail(q.rows) = <<>> THEN "fetched" ELSE "fetching",
                              !.cands = Append(@, MkCandidate(db, q.args.kind, Head(q.rows),
                                                              q.args.call.deprel))]
              [] outcome = "iter" -> [q EXCEPT !.pc = "fetched", !.rows = <<>>, !.args.fault = TRUE]
              [] outcome = "scan" -> [q EXCEPT !.pc = "fetched", !.rows = <<>>, !.failed = TRUE,
                                               !.args.fault = TRUE]
              [] OTHER -> [q EXCEPT !.pc = "fetched", !.rows = <<>>, !.failed = TRUE,
                                    !.ops = @ + 1, !.cands = <<>>,
                                    !.args.fault = @ \/ outcome = "sum"]
    /\ UNCHANGED <<coVars, sh, conf, aggVars, impVars>>

RoundTripStep ==
    \/ ImportStep
    \/ \E a \in RoundTripQueries, fail \in BOOLEAN : RoundTripFetch(a, fail)
    \/ \E outcome \in RowOutcomes : FetchNextRow(outcome)

\* the import command and candidate fetches with minFreq = 0
SpecRoundTrip == ImportInit /\ [][RoundTripStep]_vars

\* the calls of the two candidate functions: the function, and its arguments
FetchCalls ==
    [kind : {"child", "parent"},
     lemma : {W("team"), W("leader"), W("ball"), W("kick"), W("dog"), W("run")},
     upos : {EmptyStr, W("NOUN"), W("VERB")},
     deprel : {Nmod, Nsubj, ObjIobj},
     minFreq : {0, CandidatesFreqLimit}]

\* GetCollCandidatesOfChild or GetCollCandidatesOfParent: sql1 and its rows;
\* the loop over them is FetchNextRow
GetCollCandidates(a, fail) ==
    /\ q.pc = "idle"
    /\ \E rows \in CandidateRows(db, a.kind, a) : q' = FetchQuery(a, a.kind, fail, rows)
    /\ UNCHANGED <<coVars, sh, conf, aggVars, impVars>>

FetchStep ==
    \/ \E a \in FetchCalls, fail \in BOOLEAN : GetCollCandidates(a, fail)
    \/ \E outcome \in RowOutcomes : FetchNextRow(outcome)

FetchInit ==
    /\ conf = StdConf
    /\ Table = EmptyTable
    /\ ParentCounts = EmptyTable
    /\ ChildCounts = EmptyTable
    /\ stream = <<>>
    /\ db \in {OldDB, MixedDB, ImportedDB(FileFrequent)}
    /\ tx = NoTx
    /\ imp = ImpIdle
    /\ hist = NoHist
    /\ q = QIdle
    /\ sh = ShIdle
    /\ co = CoIdle
    /\ sc = ScIdle
    /\ wr = WrIdle

\* the two candidate functions called on tables prepared for serving and on
\* the tables an import leaves
SpecFetch == FetchInit /\ [][FetchStep]_vars

----------------------------------------------------------------------------
(* The sharded candidate fetch *)

\* the shards 0..NumChunks-1 of GetChildCandidates
Chunks == 0..(NumChunks - 1)

PgChildWhere(r, a) ==
    /\ r.p_lemma = a.pLemma
    /\ r.freq >= a.minFreq
    /\ a.deprel # EmptyStr => DeprelMatches(r.deprel, a.deprel)
    /\ a.pUpos # EmptyStr => r.p_upos = a.pUpos

SameChild(r, a) == r.lemma = a.lemma /\ r.upos = a.upos /\ r.deprel = a.deprel

\* one row of the SELECT: a.lemma, a.upos, a.freq and the sub-select's SUM(freq)
\* over the edge rows of the same lemma, upos and deprel
RECURSIVE PgCandidates(_, _)
PgCandidates(d, rows) ==
    IF rows = <<>> THEN <<>>
    ELSE <<[Lemma |-> Head(rows).lemma, Upos |-> Head(rows).upos, FreqXY |-> Head(rows).freq,
            FreqY |-> SumFreqRows(d.fcolls, {r \in BagToSet(d.fcolls) : SameChild(r, Head(rows))})]>>
             \o PgCandidates(d, Tail(rows))

\* the single fetch, GetChildCandidates without shards: its answer in each of
\* the orders the storage may return the rows
GetChildCandidates(d, a) ==
    {PgCandidates(d, rows) :
        rows \in RowOrders(Matching(d.fcolls, {r \in BagToSet(d.fcolls) : PgChildWhere(r, a)}))}

ShardQueries ==
    {[pLemma |-> W("leader"), pUpos |-> W("NOUN"), deprel |-> Nmod, minFreq |-> CandidatesFreqLimit],
     [pLemma |-> W("kick"), pUpos |-> EmptyStr, deprel |-> ObjIobj, minFreq |-> CandidatesFreqLimit],
     [pLemma |-> W("nobody"), pUpos |-> EmptyStr, deprel |-> EmptyStr, minFreq |-> CandidatesFreqLimit]}

\* the answers of the single fetch over the databases a server starts with,
\* computed once
ChunkAnswers == [d \in ServeDBs |-> [a \in ShardQueries |-> GetChildCandidates(d, a)]]

\* the fetch of one shard: its SQL is the SQL of the single fetch, the chunk
\* number is not part of it
getChildCandidatesForChunk(d, a, chunk) ==
    IF d \in ServeDBs /\ a \in ShardQueries THEN ChunkAnswers[d][a]
    ELSE GetChildCandidates(d, a)

\* GetChildCandidates: the channel, the WaitGroup and the spawning goroutine.
\* The eight workers differ in chunkID only, which their fetch never reads, so
\* the state of a call keeps how many workers are at each point: waiting for
\* the storage (fetching), blocked on the send with their answers (sending),
\* past the send and before the deferred wg.Done() (exiting), and done
ShardStart(a) ==
    /\ sh.pc \in {"idle", "returned"}
    /\ sh.calls < MaxRequests
    /\ sh' = [ShIdle EXCEPT !.pc = "running", !.calls = sh.calls + 1, !.args = a]
    /\ UNCHANGED <<coVars, q, conf, aggVars, impVars>>

\* wg.Add(1) and the go statement of the next chunk
ShardSpawn ==
    /\ sh.pc = "running"
    /\ sh.spawned < NumChunks
    /\ sh' = [sh EXCEPT !.spawned = @ + 1, !.fetching = @ + 1]
    /\ UNCHANGED <<coVars, q, conf, aggVars, impVars>>

\* what a worker's fetch can give: all rows ("ok"), an error of the query and
\* no row ("query"), an error of Scan and the rows before it ("scan"), an
\* iteration that ends early on an error nobody reads, without an error
\* ("iter")
ShardOutcomes == {"ok", "query", "scan", "iter"}

\* the answer of a worker's fetch: all the candidates ans, or the first k of
\* them, and whether the fetch returned an error
ChunkResult(outcome, ans, k) ==
    CASE outcome = "ok" /\ db.exists -> [ans |-> ans, err |-> FALSE]
      [] outcome = "iter" /\ db.exists -> [ans |-> SubSeq(ans, 1, k), err |-> FALSE]
      [] outcome = "scan" /\ db.exists -> [ans |-> SubSeq(ans, 1, k), err |-> TRUE]
      [] OTHER -> [ans |-> <<>>, err |-> TRUE]

\* a worker that returns without sending when its fetch failed
ShardWorkerFetch_DropOnFail(outcome) ==
    /\ sh.pc = "running"
    /\ sh.fetching > 0
    /\ \E ans \in getChildCandidatesForChunk(db, sh.args, 0) :
         \E k \in 0..(IF ans = <<>> THEN 0 ELSE Len(ans) - 1) :
           LET r == ChunkResult(outcome, ans, k) IN
           sh' = IF r.err
                 THEN [sh EXCEPT !.fetching = @ - 1, !.exiting = @ + 1, !.failed = TRUE]
                 ELSE [sh EXCEPT !.fetching = @ - 1, !.sending = @ (+) SetToBag({r.ans})]
    /\ UNCHANGED <<coVars, q, conf, aggVars, impVars>>

\* a worker's fetch returns: the tables are read now; an error is logged and
\* the answer so far kept; the worker then blocks on the send of its answer
ShardWorkerFetch(outcome) ==
    /\ sh.pc = "running"
    /\ sh.fetching > 0
    /\ \E ans \in getChildCandidatesForChunk(db, sh.args, 0) :
         \E k \in 0..(IF ans = <<>> THEN 0 ELSE Len(ans) - 1) :
           LET r == ChunkResult(outcome, ans, k) IN
           sh' = [sh EXCEPT !.fetching = @ - 1, !.sending = @ (+) SetToBag({r.ans}),
                            !.failed = @ \/ r.err]
    /\ UNCHANGED <<coVars, q, conf, aggVars, impVars>>

\* the send of one blocked worker on partialResults and its receive by the
\* range loop, which appends the answer: the channel has no buffer, so the two
\* are one step
ShardWorkerSend(ans) ==
    /\ sh.pc = "running"
    /\ BagIn(ans, sh.sending)
    /\ sh' = [sh EXCEPT !.sending = @ (-) SetToBag({ans}), !.exiting = @ + 1,
                        !.totalResult = @ \o ans, !.received = @ + 1]
    /\ UNCHANGED <<coVars, q, conf, aggVars, impVars>>

\* the deferred wg.Done() of a worker that is past its send
ShardWorkerDone ==
    /\ sh.pc = "running"
    /\ sh.exiting > 0
    /\ sh' = [sh EXCEPT !.exiting = @ - 1, !.done = @ + 1]
    /\ UNCHANGED <<coVars, q, conf, aggVars, impVars>>

\* wg.Wait() returns and the channel is closed
ShardClose ==
    /\ sh.pc = "running"
    /\ ~sh.closed
    /\ sh.spawned = NumChunks
    /\ sh.done = NumChunks
    /\ sh' = [sh EXCEPT !.closed = TRUE, !.closes = @ + 1]
    /\ UNCHANGED <<coVars, q, conf, aggVars, impVars>>

\* the range loop ends: return totalResult, nil
ShardReturn ==
    /\ sh.pc = "running"
    /\ sh.closed
    /\ sh' = [sh EXCEPT !.pc = "returned"]
    /\ UNCHANGED <<coVars, q, conf, aggVars, impVars>>

\* the answers a worker of the call can be sending
ShardAnswers == BagToSet(sh.sending)

\* the steps of the goroutines of a call: the spawning goroutine, the workers
\* (whose queries return, with rows or with an error) and the caller's loop
ShardRun ==
    \/ ShardSpawn
    \/ \E outcome \in ShardOutcomes : ShardWorkerFetch(outcome)
    \/ \E ans \in ShardAnswers : ShardWorkerSend(ans)
    \/ ShardWorkerDone
    \/ ShardClose
    \/ ShardReturn

ShardStep ==
    \/ \E a \in ShardQueries : ShardStart(a)
    \/ ShardRun

\* a server over tables no import is changing: no tables, the prepared ones
\* of OldDB, or those an import of FileScenario1 leaves
ShardInit == ServeInit /\ db \in {NoDB, OldDB, ImportedDB(FileScenario1)}

SpecShard == ShardInit /\ [][ShardStep]_vars

\* the scheduler does not leave a call's goroutines idle for ever while one of
\* them can take a step
ShardFairness == WF_vars(ShardRun)

SpecShardFair == ShardInit /\ [][ShardStep]_vars /\ ShardFairness

----------------------------------------------------------------------------
(* The ranking of fetched candidates *)

Cand(lemma, fxy, fy) == [Lemma |-> W(lemma), Upos |-> W("NOUN"), FreqXY |-> fxy, FreqY |-> fy]

\* candidates as the fetch returns them: joint frequencies from the limit up,
\* marginals not below them
CandPool == {Cand("a", 15, 15), Cand("b", 30, 180), Cand("c", 30, 30), Cand("d", 15, 200)}

\* marginal frequencies of the queried word; under the first the first two
\* candidates of the pool get the same weight
RankFxs == {150, 240}

RECURSIVE SeqsUpTo(_, _)
SeqsUpTo(S, n) ==
    IF n = 0 THEN {<<>>}
    ELSE LET shorter == SeqsUpTo(S, n - 1) IN
         shorter \cup {Append(sq, x) : sq \in {t \in shorter : Len(t) = n - 1}, x \in S}

\* a handler that has fetched its candidates and is about to rank them
RankInit ==
    /\ conf = StdConf
    /\ Table = EmptyTable
    /\ ParentCounts = EmptyTable
    /\ ChildCounts = EmptyTable
    /\ stream = <<>>
    /\ db = OldDB
    /\ tx = NoTx
    /\ imp = ImpIdle
    /\ hist = NoHist
    /\ sh = ShIdle
    /\ co = CoIdle
    /\ sc = ScIdle
    /\ wr = WrIdle
    /\ \E cs \in SeqsUpTo(CandPool, MaxCands), m \in (-1)..(MaxCands + 1), fx \in RankFxs :
         q = [QIdle EXCEPT !.pc = "rows", !.served = 1, !.ops = 2 + Len(cs), !.fx = fx,
                           !.cands = cs,
                           !.req = Req("NounsModifiedBy", W("team"), W("NOUN"), m, "corp")]

SpecRank == RankInit /\ [][HandlerRespond]_vars

----------------------------------------------------------------------------
(* The association score: updateCoOcc on the write path, the handlers on the
   read path *)

RECURSIVE GCD(_, _)
GCD(a, b) == IF b = 0 THEN a ELSE GCD(b, a % b)

\* the float64 of 14 + math.Log2(ratio) for the ratio 2*fxy / (fx + fy)
Log2Plus14(wt) ==
    IF FloatKind(wt) = "finite"
    THEN Float("finite", wt.num \div GCD(wt.num, wt.den), wt.den \div GCD(wt.num, wt.den))
    ELSE Float(FloatKind(wt), 0, 0)

logDice_KeepNaN(xy, fx, fy) ==
    LET raw == Log2Plus14(CollWeight(xy, fx, fy)) IN
    IF raw.kind = "+inf" THEN Float("3.4e38", 0, 0)
    ELSE IF raw.kind = "-inf" THEN Float("-3.4e38", 0, 0)
    ELSE raw

\* updateCoOcc: logDice of a pair and the substitution of Inf, -Inf and NaN
logDice(xy, fx, fy) ==
    LET raw == Log2Plus14(CollWeight(xy, fx, fy)) IN
    IF raw.kind = "+inf" THEN Float("3.4e38", 0, 0)
    ELSE IF raw.kind = "-inf" THEN Float("-3.4e38", 0, 0)
    ELSE IF raw.kind = "nan" THEN Float("0", 0, 0)
    ELSE raw

\* the handlers: CollWeight of a candidate, no substitution
HandlerCollWeight(fxy, fx, fy) == Log2Plus14(CollWeight(fxy, fx, fy))

\* updateCoOcc computes the score of the pair
ScoreWrite ==
    /\ sc.write = NoFloat
    /\ sc' = [sc EXCEPT !.write = logDice(sc.fxy, sc.fx, sc.fy)]
    /\ UNCHANGED <<co, wr, sh, q, conf, aggVars, impVars>>

\* a handler computes the score of the same triple
ScoreRead ==
    /\ sc.read = NoFloat
    /\ sc' = [sc EXCEPT !.read = HandlerCollWeight(sc.fxy, sc.fx, sc.fy)]
    /\ UNCHANGED <<co, wr, sh, q, conf, aggVars, impVars>>

\* the next triple: the same fx and fy, one more joint occurrence
ScoreMore ==
    /\ sc.write # NoFloat
    /\ sc.read # NoFloat
    /\ sc.fxy < MaxFreq
    /\ sc' = [sc EXCEPT !.fxy = @ + 1, !.prevWrite = sc.write, !.prevRead = sc.read,
                        !.write = NoFloat, !.read = NoFloat]
    /\ UNCHANGED <<co, wr, sh, q, conf, aggVars, impVars>>

ScoreStep == ScoreWrite \/ ScoreRead \/ ScoreMore

ScoreInit ==
    /\ conf = StdConf
    /\ Table = EmptyTable
    /\ ParentCounts = EmptyTable
    /\ ChildCounts = EmptyTable
    /\ stream = <<>>
    /\ db = NoDB
    /\ tx = NoTx
    /\ imp = ImpIdle
    /\ hist = NoHist
    /\ q = QIdle
    /\ sh = ShIdle
    /\ co = CoIdle
    /\ \E fxy \in 0..MaxFreq, fx \in 0..MaxFreq, fy \in 0..MaxFreq :
         sc = [ScIdle EXCEPT !.fxy = fxy, !.fx = fx, !.fy = fy]
    /\ wr = WrIdle

\* both scorers over every triple of frequencies up to MaxFreq
SpecScore == ScoreInit /\ [][ScoreStep]_vars

----------------------------------------------------------------------------
(* Measures over the in-memory tables *)

RECURSIVE SumOver(_, _, _)
SumOver(table, keys, d) ==
    IF keys = {} THEN 0
    ELSE LET k == CHOOSE x \in keys : TRUE
         IN (IF table[k].Deprel = d THEN table[k].Freq ELSE 0) + SumOver(table, keys \ {k}, d)

\* total frequency of the items of a table that carry deprel d
SumFreq(table, d) == SumOver(table, DOMAIN table, d)

RECURSIVE TotalOver(_, _)
TotalOver(table, keys) ==
    IF keys = {} THEN 0
    ELSE LET k == CHOOSE x \in keys : TRUE
         IN table[k].Freq + TotalOver(table, keys \ {k})

EdgeTotal == TotalOver(Table, DOMAIN Table)

Count(seq, x) == Cardinality({i \in DOMAIN seq : seq[i] = x})

AllDeprels ==
    {Table[k].Deprel : k \in DOMAIN Table}
        \cup {ParentCounts[k].Deprel : k \in DOMAIN ParentCounts}
        \cup {ChildCounts[k].Deprel : k \in DOMAIN ChildCounts}

EdgeFreqOf(tok, deprel) ==
    LET key == CtMkKey(tok.lemma, tok.upos, tok.p_lemma, tok.p_upos, deprel) IN
    IF key \in DOMAIN Table THEN Table[key].Freq ELSE 0

SingleConfigured(tok) ==
    /\ Len(Split(tok.deprel)) = 1
    /\ SliceContains(DeprelTypes(conf), tok.deprel)

LastTok == stream[Len(stream)]

----------------------------------------------------------------------------
(* Claims about the edge aggregator *)

\* C6: a tuple with a single configured deprel that occurs k times in the
\* stream ends with edge frequency k (each token adds exactly 1).
C6_FreqEqualsOccurrences ==
    \A tok \in Tokens :
        (SingleConfigured(tok) /\ Count(stream, tok) > 0)
            => EdgeFreqOf(tok, tok.deprel) = Count(stream, tok)

ObjIobjRequested(c) ==
    \E v \in {c.NounModifiedValue, c.NounSubjectValue, c.NounObjectValue} :
        v \in {Obj, Iobj, ObjIobj}

\* C7: a token whose deprel is "obj|iobj" is counted by the aggregator (it
\* raises some edge frequency) exactly when the configured relation set
\* requests "obj", "iobj" or "obj|iobj"; under a set requesting only "nsubj"
\* it is not counted.
C7_ObjIobjCounted ==
    [][(Len(stream') = Len(stream) + 1 /\ stream'[Len(stream')].deprel = ObjIobj)
          => ((EdgeTotal' > EdgeTotal) <=> ObjIobjRequested(conf))]_vars

C7_Witness ==
    /\ Len(stream) > 0
    /\ LastTok = TokBallKick
    /\ conf.NounObjectValue = Obj
    /\ EdgeFreqOf(TokBallKick, Obj) >= 1

\* C8: for each deprel value the ParentSum, ChildSum and edge frequencies
\* add up to the same total after every processed token.
C8_SumsAgree ==
    \A d \in AllDeprels :
        /\ SumFreq(ParentCounts, d) = SumFreq(Table, d)
        /\ SumFreq(ChildCounts, d) = SumFreq(Table, d)

SeqToSet(seq) == {seq[i] : i \in 1..Len(seq)}

\* the orders in which the tokens of the stream can arrive
StreamOrders ==
    {p \in [1..Len(stream) -> 1..Len(stream)] :
        \A i, j \in 1..Len(stream) : i # j => p[i] # p[j]}

\* the tuples of the stream that the pass counts
CountedTuples ==
    UNION {{<<stream[i].lemma, stream[i].upos, stream[i].p_lemma, stream[i].p_upos, d>> :
              d \in {x \in SeqToSet(expandDeprelMultivalue(stream[i].deprel)) :
                        SliceContains(DeprelTypes(conf), x)}} :
           i \in 1..Len(stream)}

\* C24: the three tables are the same for every order of the same tokens,
\* also with ':' in lemma or POS values, and two distinct (lemma, upos,
\* p_lemma, p_upos, deprel) tuples are accumulated into two distinct records.
\* The first conjunct runs the pass over every order of the stream and
\* compares keys, stored fields and frequencies; the other two say that the
\* edge table has exactly one record per counted tuple.
C24_TablesOrderIndependent ==
    /\ \A p \in StreamOrders :
          ParseVertical(EmptyVertState, DeprelTypes(conf), [i \in 1..Len(stream) |-> stream[p[i]]])
              = [Table |-> Table, ParentCounts |-> ParentCounts, ChildCounts |-> ChildCounts]
    /\ {<<Table[k].Lemma, Table[k].Upos, Table[k].PLemma, Table[k].PUpos, Table[k].Deprel>> :
            k \in DOMAIN Table} = CountedTuples
    /\ Cardinality(DOMAIN Table) = Cardinality(CountedTuples)

----------------------------------------------------------------------------
(* Claims about the import command *)

\* C1: when a chunk insert of the bulk write fails, the persisted tables
\* hold exactly the rows they held when runForDeprel started.
C1_FailedWriteRestoresTables ==
    (imp.pc = "fatal" /\ imp.err = "chunk") => db = hist.preRun

\* a run that went through, or that stopped at a CREATE TABLE of a table that
\* exists
ImportFinished == imp.pc = "done" \/ (imp.pc = "fatal" /\ imp.err = "exists")

\* C16: an import run in which the co-occurrence pass or the transaction that
\* stores its scores failed is not reported as successful.
C16_FailedCoOccPassReported ==
    imp.pc = "done" => ~imp.coErr

\* C3: a second run of the import command on the same file leaves the three
\* tables with exactly the rows the first run left.
C3_SecondRunSameTables ==
    (imp.run = 2 /\ ImportFinished /\ hist.ok1 /\ imp.file = hist.file1)
        => /\ db.fcolls = hist.after1.fcolls
           /\ db.parent_sums = hist.after1.parent_sums
           /\ db.child_sums = hist.after1.child_sums

C3_Witness ==
    /\ imp.run = 2
    /\ imp.pc = "done"
    /\ hist.ok1
    /\ imp.file = hist.file1
    /\ imp.file = FileFrequent
    /\ BagCardinality(db.parent_sums) > 0

----------------------------------------------------------------------------
(* Claims about the read endpoints *)

\* C2: the marginal frequency read by a request that runs during a re-import
\* is the one of the tables before the import or of the tables after it.
C2_QuerySeesBeforeOrAfter ==
    (q.pc \notin {"idle", "getfreq"} /\ q.during /\ q.status # StatusInternalServerError
        /\ imp.pc = "done" /\ hist.preCmd.exists)
        => \/ q.fx = GetFreq(hist.preCmd, FreqArgs(q.req))
           \/ q.fx = GetFreq(db, FreqArgs(q.req))

\* C5: a request during which the candidate fetch met a storage failure is
\* answered with a server error.
C5_FailureGivesServerError ==
    (q.pc = "done" /\ q.failed) => q.status = StatusInternalServerError

\* C9: a request whose w is empty is answered with 422 Unprocessable Entity
\* and performs no storage operation, on each of the four endpoints.
C9_EmptyWordRejected ==
    (q.pc # "idle" /\ q.req.w = EmptyStr)
        => q.pc = "done" /\ q.status = StatusUnprocessableEntity /\ q.ops = 0

\* C17: a request for a corpus that is not configured is answered with a
\* client error (4xx) and performs no storage operation.
C17_UnknownCorpusClientError ==
    (q.pc \notin {"idle", "fetched"} /\ IsValid(q.req.w) /\ ~GetCorpusProps(q.req.corpusId))
        => /\ q.pc = "done"
           /\ q.status >= 400
           /\ q.status < 500
           /\ q.ops = 0

Answered == q.pc = "done" /\ q.status = StatusOK /\ ~q.failed

CandSet == {<<c.Lemma, c.Upos, c.FreqXY>> : c \in SeqToSet(q.cands)}

Wanted(r) ==
    /\ r.freq >= CandidatesFreqLimit
    /\ DeprelMatches(r.deprel, FreqArgs(q.req).deprel)

\* the request's word is matched against the child columns (lemma, upos) of
\* the fetched edge rows and the candidates are the parents of those rows
ChildRole ==
    /\ \A r \in SeqToSet(q.rows) :
          r.lemma = q.req.w /\ (q.req.pos # EmptyStr => r.upos = q.req.pos)
    /\ Answered =>
          CandSet = {<<r.p_lemma, r.p_upos, r.freq>> : r \in
                        {x \in BagToSet(db.fcolls) :
                            /\ x.lemma = q.req.w
                            /\ (q.req.pos # EmptyStr => x.upos = q.req.pos)
                            /\ Wanted(x)}}

\* the request's word is matched against the parent columns (p_lemma, p_upos)
\* and the candidates are the children of those rows
ParentRole ==
    /\ \A r \in SeqToSet(q.rows) :
          r.p_lemma = q.req.w /\ (q.req.pos # EmptyStr => r.p_upos = q.req.pos)
    /\ Answered =>
          CandSet = {<<r.lemma, r.upos, r.freq>> : r \in
                        {x \in BagToSet(db.fcolls) :
                            /\ x.p_lemma = q.req.w
                            /\ (q.req.pos # EmptyStr => x.p_upos = q.req.pos)
                            /\ Wanted(x)}}

\* C18 (as stated): modifiers-of and verbs-subject match the word against the
\* child columns and return its parents, noun-modified-by matches it against
\* the parent columns and returns its children.
C18_RolesAsStated ==
    /\ q.req.endpoint \in {"ModifiersOf", "VerbsSubject"} => ChildRole
    /\ q.req.endpoint = "NounsModifiedBy" => ParentRole

\* C18 (amended): noun-modified-by and verbs-subject match the word against
\* the child columns and return its parents, modifiers-of matches it against
\* the parent columns and returns its children.
C18_RolesAmended ==
    /\ q.req.endpoint \in {"NounsModifiedBy", "VerbsSubject"} => ChildRole
    /\ q.req.endpoint = "ModifiersOf" => ParentRole

\* modifiers-of "leader" answered with its child "team"
C18_Witness ==
    /\ q.pc = "done"
    /\ q.status = StatusOK
    /\ q.req.endpoint = "ModifiersOf"
    /\ Len(q.cands) = 1
    /\ q.cands[1].Lemma = W("team")
    /\ Len(q.freqs) = 1

\* C15: a request cancelled (or past its deadline) while a database operation
\* of it was still to run or in flight ends with a server error: the operation
\* is aborted, not completed.
C15_CancelledRequestAborted ==
    (q.pc = "done" /\ q.cancelled) => q.status = StatusInternalServerError

C9_Witness ==
    /\ q.pc = "done"
    /\ q.req.w = EmptyStr
    /\ q.req.endpoint = "VerbsObject"
    /\ q.status = StatusUnprocessableEntity
    /\ db = OldDB

\* the marginal frequency a handler reads for the word of a sharded fetch
ShardFx ==
    GetFreq(db, [lemma |-> EmptyStr, upos |-> EmptyStr, pLemma |-> sh.args.pLemma,
                 pUpos |-> sh.args.pUpos, deprel |-> sh.args.deprel])

RECURSIVE WithoutPos(_)
WithoutPos(items) ==
    IF items = <<>> THEN <<>>
    ELSE <<[Word |-> Head(items).Word, Freq |-> Head(items).Freq,
            CollWeight |-> Head(items).CollWeight]>> \o WithoutPos(Tail(items))

\* the candidates as a handler ranks them
Ranked(cands, fx) == WithoutPos(SliceStable(MkItems(cands, fx, 1)))

\* C4: the merged and sorted result of the 8 shards, none of which failed, is
\* the sorted result of the single fetch over the same tables.
C4_ShardedEqualsSingle ==
    (sh.pc = "returned" /\ ~sh.failed)
        => Ranked(sh.totalResult, ShardFx)
              \in {Ranked(single, ShardFx) : single \in GetChildCandidates(db, sh.args)}

\* x is ranked before y: its weight is higher, or the same and it was fetched earlier
Before(x, y) ==
    \/ FloatLess(y.CollWeight, x.CollWeight)
    \/ ~FloatLess(x.CollWeight, y.CollWeight) /\ x.pos < y.pos

\* the place of x in the stable descending order of items
Rank(items, x) == 1 + Cardinality({j \in 1..Len(items) : Before(items[j], x)})

Min(a, b) == IF a < b THEN a ELSE b

\* C10: for maxItems >= 0 the response is the first min(maxItems, n) of the n
\* fetched candidates in stable descending order of weight: its i-th item is
\* the candidate of rank i, so weights do not increase along the list and
\* candidates of equal weight keep their fetch order.
C10_ResponseIsSortedPrefix ==
    (q.pc = "done" /\ q.status = StatusOK /\ q.req.maxItems >= 0)
        => LET items == MkItems(q.cands, q.fx, 1) IN
           /\ Len(q.freqs) = Min(q.req.maxItems, Len(q.cands))
           /\ \A i \in 1..Len(q.freqs) :
                /\ q.freqs[i] \in {items[j] : j \in 1..Len(items)}
                /\ Rank(items, q.freqs[i]) = i
           /\ \A i \in 1..(Len(q.freqs) - 1) :
                /\ ~FloatLess(q.freqs[i].CollWeight, q.freqs[i + 1].CollWeight)
                /\ ~FloatLess(q.freqs[i + 1].CollWeight, q.freqs[i].CollWeight)
                       => q.freqs[i].pos < q.freqs[i + 1].pos

\* maxItems=1 on 5 candidates, the two of highest weight equal and not first
C10_Witness ==
    /\ q.pc = "done"
    /\ q.status = StatusOK
    /\ q.req.maxItems = 1
    /\ Len(q.cands) = 5
    /\ q.fx = 150
    /\ Len(q.freqs) = 1
    /\ q.freqs[1].pos = 2
    /\ q.cands[2].Lemma = W("c")
    /\ q.cands[4] = q.cands[2]

\* an edge row that matches the fixed side of the request: the word, its pos
\* if given, and the relation class
FixedSide(r) ==
    /\ DeprelMatches(r.deprel, FreqArgs(q.req).deprel)
    /\ IF q.req.endpoint = "ModifiersOf"
       THEN r.p_lemma = q.req.w /\ (q.req.pos # EmptyStr => r.p_upos = q.req.pos)
       ELSE r.lemma = q.req.w /\ (q.req.pos # EmptyStr => r.upos = q.req.pos)

\* C25: the word's marginal frequency Fx is the sum of the joint frequencies
\* of all edge rows matching the fixed side of the request (the FreqXY of the
\* candidates a fetch with minFreq = 0 gives), so no candidate has a joint
\* frequency above Fx.
C25_FxIsSumOfCandidates ==
    (q.pc \in {"query", "rows"} \/ (q.pc = "done" /\ q.status = StatusOK))
        => /\ q.fx = SumFreqRows(db.fcolls, {r \in BagToSet(db.fcolls) : FixedSide(r)})
           /\ \A i \in 1..Len(q.cands) : q.cands[i].FreqXY <= q.fx

\* C26: the FreqY of every candidate of the two candidate functions is the sum
\* of freq over the rows of the opposite sum table with the candidate's lemma
\* and upos and a deprel among the values of the relation class, classes of
\* several values included.
C26_FreqYIsOppositeMarginal ==
    (q.pc = "fetched" /\ "kind" \in DOMAIN q.args.call)
        => LET a == q.args.call
               sums == IF a.kind = "child" THEN db.parent_sums ELSE db.child_sums
           IN \A i \in 1..Len(q.cands) :
                 q.cands[i].FreqY =
                     SumFreqRows(sums, {r \in BagToSet(sums) :
                                          /\ r.lemma = q.cands[i].Lemma
                                          /\ r.upos = q.cands[i].Upos
                                          /\ DeprelMatches(r.deprel, a.deprel)})

\* the fields of a string between the occurrences of a separator
RECURSIVE Fields(_, _, _)
Fields(s, sep, cur) ==
    IF s = <<>> THEN <<cur>>
    ELSE IF Head(s) = sep THEN <<cur>> \o Fields(Tail(s), sep, <<>>)
    ELSE Fields(Tail(s), sep, Append(cur, Head(s)))

\* a clause as a query parser reads it: attribute, '=', and a value between
\* two quotation marks with no quotation mark inside
WellFormedClause(cl) ==
    /\ Len(cl) >= 4
    /\ cl[2] = "="
    /\ cl[3] = "\""
    /\ cl[Len(cl)] = "\""
    /\ Count(cl, "\"") = 2

ReadClause(cl) == <<cl[1], SubSeq(cl, 4, Len(cl) - 1)>>

\* the clauses the claim lists for a request, as (attribute, value)
ExpectedClauses(c, r) ==
    LET par == r.endpoint = "ModifiersOf"
        verb == r.endpoint \in {"VerbsObject", "VerbsSubject"}
        wLemma == IF par THEN c.ParLemmaAttr ELSE c.LemmaAttr
        wPos == IF par THEN c.ParPosAttr ELSE c.PosAttr
        cLemma == IF par THEN c.LemmaAttr ELSE c.ParLemmaAttr
        cPos == IF par THEN c.PosAttr ELSE c.ParPosAttr
        rel == CASE r.endpoint = "VerbsObject" -> c.NounObjectValue
                 [] r.endpoint = "VerbsSubject" -> c.NounSubjectValue
                 [] OTHER -> c.NounModifiedValue
    IN {<<wLemma.Name[1], r.w>>, <<c.FuncAttr.Name[1], rel>>,
        <<cPos.Name[1], IF verb THEN c.VerbValue ELSE c.NounValue>>,
        <<cLemma.Name[1], <<"%s">> >>}
           \cup (IF r.pos = EmptyStr THEN {} ELSE {<<wPos.Name[1], r.pos>>})

\* C23: the example query of a response is one bracketed expression whose
\* clauses are exactly the word's lemma clause, the word's POS clause iff a
\* PoS was given, the relation clause, the partner POS clause and the
\* candidate clause; it holds the placeholder exactly once and every value is
\* well quoted, whatever the query word.
C23_ExampleQueryWellFormed ==
    (q.pc = "done" /\ q.status = StatusOK)
        => LET t == q.tpl
               cls == Fields(SubSeq(t, 2, Len(t) - 1), " & ", <<>>)
           IN /\ Len(t) >= 2 /\ t[1] = "[" /\ t[Len(t)] = "]"
              /\ Count(t, "[") = 1 /\ Count(t, "]") = 1
              /\ Count(t, "%s") = 1
              /\ \A i \in 1..Len(cls) : WellFormedClause(cls[i])
              /\ Len(cls) = Cardinality(ExpectedClauses(conf, q.req))
              /\ {ReadClause(cls[i]) : i \in 1..Len(cls)} = ExpectedClauses(conf, q.req)

\* C30: Cut does not fail for any maxItems, 0 and negative values included,
\* and the response is a prefix of the sorted list with at most
\* max(maxItems, 0) items.
C30_CutNeverFails ==
    q.pc = "done"
        => LET sorted == SliceStable(MkItems(q.cands, q.fx, 1)) IN
           /\ q.status = StatusOK
           /\ Len(q.freqs) <= (IF q.req.maxItems > 0 THEN q.req.maxItems ELSE 0)
           /\ Len(q.freqs) <= Len(sorted)
           /\ q.freqs = SubSeq(sorted, 1, Len(q.freqs))

----------------------------------------------------------------------------
(* Claims about the association score *)

\* the place of a float64 among: -Inf, -3.4e38, the values between, 3.4e38, +Inf
FloatClass(f) ==
    CASE f.kind = "-inf" -> 0
      [] f.kind = "-3.4e38" -> 1
      [] f.kind = "3.4e38" -> 3
      [] f.kind = "+inf" -> 4
      [] OTHER -> 2

\* the ratio r with value 14 + log2(r); the literal 0 is 14 + log2(1/16384)
RatioOf(f) == IF f.kind = "0" THEN [num |-> 1, den |-> 16384] ELSE [num |-> f.num, den |-> f.den]

\* a <= b on float64 values, neither of them NaN
FloatLeq(a, b) ==
    /\ a.kind # "nan"
    /\ b.kind # "nan"
    /\ \/ FloatClass(a) < FloatClass(b)
       \/ /\ FloatClass(a) = FloatClass(b)
          /\ FloatClass(a) = 2 => RatioOf(a).num * RatioOf(b).den <= RatioOf(b).num * RatioOf(a).den

SameFloat(a, b) ==
    \/ a.kind = "nan" /\ b.kind = "nan"
    \/ FloatLeq(a, b) /\ FloatLeq(b, a)

IsFinite(f) == f.kind \notin {"nan", "+inf", "-inf"}

SentinelMax == Float("3.4e38", 0, 0)

SentinelMin == Float("-3.4e38", 0, 0)

\* C11: for every triple the score the handlers compute is the score
\* updateCoOcc computes, the triples of raw value +Inf, -Inf and NaN included.
C11_ReadScoreEqualsWriteScore ==
    (sc.write # NoFloat /\ sc.read # NoFloat) => SameFloat(sc.read, sc.write)

\* C12: updateCoOcc's score is 0 for fxy = 0 and fx + fy = 0, the sentinel
\* maximum for fxy > 0 and fx + fy = 0, the sentinel minimum for fxy = 0 and
\* fx + fy > 0, and 14 + log2(2*fxy/(fx+fy)) otherwise; it is never NaN or an
\* infinity.
C12_WriteScoreSentinels ==
    sc.write # NoFloat =>
        /\ IsFinite(sc.write)
        /\ (sc.fxy = 0 /\ sc.fx + sc.fy = 0) => sc.write = Float("0", 0, 0)
        /\ (sc.fxy > 0 /\ sc.fx + sc.fy = 0) => sc.write = SentinelMax
        /\ (sc.fxy = 0 /\ sc.fx + sc.fy > 0) => sc.write = SentinelMin
        /\ (sc.fxy > 0 /\ sc.fx + sc.fy > 0) =>
              /\ sc.write.kind = "finite"
              /\ sc.write.num * (sc.fx + sc.fy) = sc.write.den * 2 * sc.fxy

\* the NaN case, reached after the +Inf case was not: fxy = 0 and fx + fy = 0
C12_Witness ==
    /\ sc.fxy = 0
    /\ sc.fx + sc.fy = 0
    /\ sc.write = Float("0", 0, 0)

\* C13: for fx + fy > 0 the score of either path is finite, lies between the
\* sentinel minimum and maximum, and does not decrease when fxy grows by one
\* with fx and fy fixed.
C13_ScoreFiniteBoundedMonotone ==
    sc.fx + sc.fy > 0 =>
        /\ \A f \in {sc.write, sc.read} \ {NoFloat} :
              IsFinite(f) /\ FloatLeq(SentinelMin, f) /\ FloatLeq(f, SentinelMax)
        /\ (sc.write # NoFloat /\ sc.prevWrite # NoFloat) => FloatLeq(sc.prevWrite, sc.write)
        /\ (sc.read # NoFloat /\ sc.prevRead # NoFloat) => FloatLeq(sc.prevRead, sc.read)

----------------------------------------------------------------------------
(* Claims about the round trip *)

RECURSIVE BagOfSeq(_)
BagOfSeq(seq) == IF seq = <<>> THEN EmptyBag ELSE SetToBag({Head(seq)}) (+) BagOfSeq(Tail(seq))

RECURSIVE Triples(_)
Triples(cands) ==
    IF cands = <<>> THEN <<>>
    ELSE <<[lemma |-> Head(cands).Lemma, upos |-> Head(cands).Upos, freq |-> Head(cands).FreqXY]>>
             \o Triples(Tail(cands))

\* the edge records of the first pass over the file whose import the fetch
\* followed
InMemoryTable == ParseVertical(EmptyVertState, DeprelTypes(conf), q.args.file).Table

\* the (p_lemma, p_upos, freq) of the in-memory edge records of a word and
\* relation class, one per record
ExpectedTriples(lemma, upos, deprel) ==
    LET t == InMemoryTable
        ks == {k \in DOMAIN t : /\ t[k].Lemma = lemma
                                /\ upos # EmptyStr => t[k].Upos = upos
                                /\ SliceContains(Split(deprel), t[k].Deprel)}
        tr(k) == [lemma |-> t[k].PLemma, upos |-> t[k].PUpos, freq |-> t[k].Freq]
    IN [x \in {tr(k) : k \in ks} |-> Cardinality({k \in ks : tr(k) = x})]

\* a fetch that began after a finished run of the import command and ended
\* before another run began, the storage failing at no point of it
FetchAfterImport ==
    /\ q.pc = "fetched"
    /\ imp.pc = "done"
    /\ q.args.run = imp.run
    /\ ~q.args.fault

\* C14: after an import, the candidate fetch with minFreq = 0 succeeds and
\* yields exactly the (lemma, upos, freq) multiset of the matching in-memory
\* edge records.
C14_RoundTripSameRows ==
    FetchAfterImport =>
        /\ ~q.failed
        /\ BagOfSeq(Triples(q.cands)) = ExpectedTriples(q.args.call.lemma, q.args.call.upos, q.args.call.deprel)

\* a run of the import command whose InitializeDB has succeeded
Initialised == imp.pc \notin {"idle", "fatal", "init"}

\* C29: once the import command has initialised the tables with InitializeDB,
\* the edge table has the co_occurrence_score column that the score update
\* writes and the candidate queries read, so neither fails for a missing column.
C29_EdgeTableHasScoreColumn ==
    /\ Initialised => db.exists /\ db.hasScore
    /\ (FetchAfterImport /\ q.failed) => db.hasScore

----------------------------------------------------------------------------
(* Claims about the two passes over token rows *)

\* the number of attributes a row needs for every configured column to exist
NeededAttrs(c) == CHOOSE n \in VertCols(c) : \A k \in VertCols(c) : k <= n

\* a step in which a processor is given a row
RowStep ==
    /\ co.pc \in {"pass1", "pass2"}
    /\ Len(co'.file) > Len(co.file) \/ co'.pos > co.pos

\* C19: a token row with fewer attribute columns than the configured columns
\* need is skipped in both passes: no table and no window changes, and the
\* pass goes on without an error or a crash.
C19_ShortRowSkipped ==
    [][(RowStep /\ Len(IF co.pc = "pass1" THEN co'.file[Len(co'.file)]
                                           ELSE co.file[co'.pos]) < NeededAttrs(conf))
           => /\ co'.pc = co.pc
              /\ UNCHANGED <<Table, ParentCounts, ChildCounts>>
              /\ co'.Window = co.Window
              /\ co'.CoTable = co.CoTable
              /\ co'.TokenCounts = co.TokenCounts]_vars

Edges == {Table[k] : k \in DOMAIN Table}

Increased(old, new) ==
    /\ DOMAIN new = DOMAIN old
    /\ \A k \in DOMAIN old : new[k].Freq >= old[k].Freq

\* C20: every key of the co-occurrence table is the (lemma, upos, p_lemma,
\* p_upos) projection of an edge record and every key of the token-count table
\* is a child or a parent of one; a token of the second pass adds no key to
\* either table and only increases frequencies.
C20_OnlyEdgePairsCounted ==
    /\ [](/\ DOMAIN co.CoTable \subseteq
                {CoMkKey(e.Lemma, e.Upos, e.PLemma, e.PUpos) : e \in Edges}
          /\ DOMAIN co.TokenCounts \subseteq
                {FyMkKey(e.Lemma, e.Upos, EmptyStr) : e \in Edges}
                    \cup {FyMkKey(e.PLemma, e.PUpos, EmptyStr) : e \in Edges})
    /\ [][co.pc = "pass2" => /\ Increased(co.CoTable, co'.CoTable)
                             /\ Increased(co.TokenCounts, co'.TokenCounts)]_vars

\* the second pass has counted a pair of the table in a full window and has
\* been given a token that is in neither table
C20_Witness ==
    /\ co.pc = "done"
    /\ \E k \in DOMAIN co.CoTable : co.CoTable[k].Freq > 0
    /\ \E i \in 1..Len(co.file) :
          /\ Len(co.file[i]) >= MinTokenAttrs
          /\ ~FyHas(co.TokenCounts, co.file[i][conf.LemmaAttr.VerticalCol],
                    co.file[i][conf.PosAttr.VerticalCol], EmptyStr)
    /\ Len(co.Window) = 2 * co.Span + 1

\* the (lemma, upos) of the valid rows among the first k rows of the file
RECURSIVE ValidTokens(_)
ValidTokens(k) ==
    IF k = 0 THEN <<>>
    ELSE LET attrs == co.file[k] IN
         IF Len(attrs) < MinTokenAttrs THEN ValidTokens(k - 1)
         ELSE Append(ValidTokens(k - 1),
                     <<attrs[conf.LemmaAttr.VerticalCol], attrs[conf.PosAttr.VerticalCol]>>)

\* the positions (i, j) of the claim, counted from 1: i has span tokens on
\* either side, j is another position at most span away
FocusPairs(toks, span, a, b) ==
    {p \in (1..Len(toks)) \X (1..Len(toks)) :
        /\ span + 1 <= p[1]
        /\ p[1] <= Len(toks) - span
        /\ p[2] # p[1]
        /\ p[2] - p[1] <= span
        /\ p[1] - p[2] <= span
        /\ toks[p[1]] = a
        /\ toks[p[2]] = b}

\* C21: the window holds the last min(k, 2s+1) valid tokens in arrival order,
\* and after the pass the frequency of each seeded pair (a, b) is the number
\* of positions (i, j), s <= i <= n-1-s, j # i, |i-j| <= s, with token i equal
\* to a and token j equal to b.
C21_PairFreqCountsWindowPositions ==
    /\ co.pc = "pass2" =>
          LET toks == ValidTokens(co.pos)
              m == Min(Len(toks), 2 * co.Span + 1)
          IN co.Window = SubSeq(toks, Len(toks) - m + 1, Len(toks))
    /\ co.pc = "done" =>
          \A k \in DOMAIN co.CoTable :
              co.CoTable[k].Freq =
                  Cardinality(FocusPairs(ValidTokens(Len(co.file)), co.Span,
                                         <<co.CoTable[k].Lemma, co.CoTable[k].Upos>>,
                                         <<co.CoTable[k].CoLemma, co.CoTable[k].CoUpos>>))

\* a step of the second pass that processes a valid row, and the token-count
\* key of that row
TokenStep ==
    /\ co.pc = "pass2"
    /\ co'.pc = "pass2"
    /\ co'.pos = co.pos + 1
    /\ Len(co.file[co'.pos]) >= MinTokenAttrs

TokenKey ==
    FyMkKey(co.file[co'.pos][conf.LemmaAttr.VerticalCol],
            co.file[co'.pos][conf.PosAttr.VerticalCol], EmptyStr)

\* the token-count keys of the two sides of a pair
PairTokenKeys(item) ==
    {FyMkKey(item.Lemma, item.Upos, EmptyStr), FyMkKey(item.CoLemma, item.CoUpos, EmptyStr)}

\* C22 (as stated): a token count is incremented exactly when a seeded pair
\* in which the token participates is incremented in a full window.
C22_TokenCountFollowsPairs ==
    [][TokenStep =>
          \A k \in DOMAIN co.TokenCounts :
              (co'.TokenCounts[k].Freq > co.TokenCounts[k].Freq)
                  <=> \E p \in DOMAIN co.CoTable :
                         /\ co'.CoTable[p].Freq > co.CoTable[p].Freq
                         /\ k \in PairTokenKeys(co.CoTable[p])]_vars

\* C22 (amended): each token processed in the second pass adds exactly one
\* to the count under its own key if that key was seeded, whether or not the
\* window is full and whether or not a pair is incremented; no other count
\* changes and a token whose key was not seeded changes none.
C22_TokenCountPerToken ==
    [][TokenStep =>
          /\ DOMAIN co'.TokenCounts = DOMAIN co.TokenCounts
          /\ \A k \in DOMAIN co.TokenCounts :
                co'.TokenCounts[k].Freq =
                    co.TokenCounts[k].Freq + (IF k = TokenKey THEN 1 ELSE 0)]_vars

\* a token has been counted while the window was not yet full, and a token
\* that was not seeded has been processed
C22_Witness ==
    /\ co.pc = "pass2"
    /\ co.pos = 2
    /\ Len(co.Window) = 2
    /\ co.Span = 1
    /\ \E k \in DOMAIN co.TokenCounts : co.TokenCounts[k].Freq = 1
    /\ ~FyHas(co.TokenCounts, co.Window[2][1], co.Window[2][2], EmptyStr)

----------------------------------------------------------------------------
(* Claims about the chunked writers *)

RECURSIVE Flatten(_)
Flatten(seqs) == IF seqs = <<>> THEN <<>> ELSE Head(seqs) \o Flatten(Tail(seqs))

\* C27: for a table of any size n, a writer that ends without error has
\* issued ceil(n / chunkSize) INSERT statements, none empty and none of more
\* than chunkSize rows, and has inserted every record exactly once.
C27_ChunkedWriterInsertsAll ==
    wr.pc = "done" =>
        /\ Len(wr.inserts) = (wr.n + wr.chunk - 1) \div wr.chunk
        /\ \A k \in 1..Len(wr.inserts) :
              Len(wr.inserts[k]) >= 1 /\ Len(wr.inserts[k]) <= wr.chunk
        /\ Len(Flatten(wr.inserts)) = wr.n
        /\ \A item \in 1..wr.n : Count(Flatten(wr.inserts), item) = 1

\* a table of exactly two chunks has been written with two INSERTs
C27_Witness ==
    /\ wr.pc = "done"
    /\ wr.chunk = 2
    /\ wr.n = 4
    /\ Len(wr.inserts) = 2

----------------------------------------------------------------------------
(* Claims about the goroutines of the sharded fetch *)

\* the workers that have delivered their answer
Delivered == sh.exiting + sh.done

\* what holds in every state of a call
ShardSafe ==
    /\ sh.spawned <= NumChunks
    /\ sh.spawned = sh.fetching + BagCardinality(sh.sending) + sh.exiting + sh.done
    /\ sh.received = Delivered
    /\ sh.closes = (IF sh.closed THEN 1 ELSE 0)
    /\ sh.closed => sh.spawned = NumChunks /\ sh.received = NumChunks /\ sh.done = NumChunks
    /\ sh.pc = "returned" => sh.closed /\ sh.received = NumChunks

\* a delivery: one worker passes its send
Delivery == sh.pc = "running" /\ sh'.pc = "running" /\ sh'.exiting = sh.exiting + 1

\* what holds of every step of a call
ShardStepSafe ==
    /\ Delivery => /\ ~sh.closed
                   /\ sh'.received = sh.received + 1
                   /\ \E ans \in ShardAnswers :
                        /\ sh'.sending = sh.sending (-) SetToBag({ans})
                        /\ sh'.totalResult = sh.totalResult \o ans
    /\ (sh.pc = "running" /\ sh'.pc = "running" /\ sh'.totalResult # sh.totalResult) => Delivery
    /\ sh.pc = "running" => db' = db /\ sh'.args = sh.args

\* C28: a call of the sharded GetChildCandidates returns under fair scheduling;
\* 8 workers are started, each delivers one partial result, also after a failed
\* query, the channel is closed once and after the 8 deliveries, no worker sends
\* on the closed channel or changes shared state but by its delivery, and the
\* caller returns after 8 partial results
C28_ShardedFetchTerminates ==
    /\ []ShardSafe
    /\ [][ShardStepSafe]_vars
    /\ (sh.pc = "running" ~> sh.pc = "returned")

\* a call that returned although one of its queries failed
C28_Witness ==
    /\ sh.pc = "returned"
    /\ sh.failed
    /\ sh.received = NumChunks
    /\ sh.closes = 1

====
